---- MODULE Spec2Model ----
(***************************************************************************)
(* Voice-profile training pipeline of src/voice_engine.py:                 *)
(* VoiceCloningEngine with its job registry (training_jobs), its bounded   *)
(* worker pool (ThreadPoolExecutor), the worker _train_voice_model at      *)
(* statement granularity, and the model store (model_dir / <job_id>.pkl).  *)
(* Progress values are Python floats; they are modelled exactly, as        *)
(* integers in units of 1/PScale.                                          *)
(***************************************************************************)
EXTENDS Integers, Sequences, FiniteSets, TLC

\* ------------------------------------------------------------------ bounds
MaxFiles == 2       \* length of an audio_files list
MaxJobs == 6        \* jobs submitted to the pool in SpecPool
MaxClock == 2       \* half seconds the wall clock advances in SpecList
MaxSamples == 3     \* samples handed to the combiner in SpecCombine
MaxCount == 10      \* files of a request in SpecEstimate
MaxFrames == 4      \* analysis frames of an audio array in SpecExtract
MaxVoices == 2      \* voice ids the web application can hand out in SpecWeb
MaxSynth == 2       \* synthesis job ids it can hand out in SpecWeb
MaxBins == 11       \* bins up to the middle of a spectrum of magnitudes 0 and 10
MaxFineBins == 5    \* the same for a spectrum of magnitudes 0, 1 and 10

\* ------------------------------------------------------- program constants
MaxWorkers == 4     \* ThreadPoolExecutor(max_workers=4)
MinDuration == 20   \* "duration < 2.0", in tenths of a second
PScale == 60        \* resolution of a progress value: 1/60 of a percent

\* stages[k] of _train_voice_model: (label, progress), 1-based here
Stages ==
  << [label |-> "Analyzing audio quality",          pct |-> 10],
     [label |-> "Extracting voice characteristics", pct |-> 20],
     [label |-> "Preprocessing audio data",         pct |-> 35],
     [label |-> "Training neural network",          pct |-> 70],
     [label |-> "Optimizing voice model",           pct |-> 85],
     [label |-> "Validating output quality",        pct |-> 95],
     [label |-> "Finalizing model",                 pct |-> 100] >>

StagePct(k) == Stages[k].pct * PScale

Min(a, b) == IF a <= b THEN a ELSE b

Tiers == {"draft", "standard", "high", "premium"}

\* training_iterations.get(quality, 15)
TrainingIterations(q) ==
  CASE q = "draft"    -> 5
    [] q = "standard" -> 15
    [] q = "high"     -> 30
    [] q = "premium"  -> 50
    [] OTHER          -> 15

\* An audio file as the worker sees it: does the path exist, does librosa
\* decode it, its duration (tenths of a second), and does the second pass
\* (load, preprocess, extract_voice_characteristics) succeed on it.
AudioFile(e, d, dur, x) ==
  [exists |-> e, decodable |-> d, duration |-> dur, extractable |-> x]

Good     == AudioFile(TRUE,  TRUE,  50, TRUE)
Exactly2 == AudioFile(TRUE,  TRUE,  20, TRUE)
Short    == AudioFile(TRUE,  TRUE,  19, TRUE)
Missing  == AudioFile(FALSE, FALSE, 0,  FALSE)
Corrupt  == AudioFile(TRUE,  FALSE, 0,  FALSE)
Flaky    == AudioFile(TRUE,  TRUE,  50, FALSE)

FilePool == {Good, Exactly2, Short, Missing, Corrupt, Flaky}

\* sequences over S of length 0..n
RECURSIVE SeqsUpTo(_, _)
SeqsUpTo(S, n) ==
  IF n = 0 THEN {<< >>}
  ELSE LET shorter == SeqsUpTo(S, n - 1)
       IN  shorter \cup {Append(s, x) : s \in {t \in shorter : Len(t) = n - 1}, x \in S}

Terminal(st) == st \in {"completed", "failed", "cancelled"}

\* "total_duration < 10" of clone_voice, in tenths of a second
MinTotalDuration == 100

\* ------------------------------------------------------------------- state
VARIABLES
  registry,   \* keys of self.training_jobs
  job,        \* the record (dict) created for each job id
  future,     \* state of the Future returned by executor.submit
  pc,         \* position of the worker running _train_voice_model(job_id)
  loc,        \* the worker's local variables
  store,      \* model_dir: state of <job_id>.pkl
  ccall,      \* the cancel_training call in progress on each job id, with
              \* the job's status and the worker's position and loop index
              \* at the moment it was made
  cret,       \* value returned by the last cancel_training(job_id)
  snap,       \* value returned by the last get_training_status
  dret,       \* value returned by the last delete_voice_model, and whether
              \* that call found a model file whose id the registry lacked
  clock,      \* the wall clock read by datetime.now(), in half seconds
  meta,       \* model_data['created_at'] inside each <job_id>.pkl
  lret,       \* value returned by the last list_voice_models
  call,       \* the last call of a pure function on its own: arguments,
              \* result
  web         \* the web application: its voice_models and synthesis_jobs
              \* dicts, the files of the output folder, the last response

vars == << registry, job, future, pc, loc, store, ccall, cret, snap, dret,
           clock, meta, lret, call, web >>

\* the job ids start_voice_cloning can hand out in this run
JobIds == DOMAIN job

\* base_time.get(quality, 120), seconds
BaseTime(quality) ==
  CASE quality = "draft"    -> 30
    [] quality = "standard" -> 120
    [] quality = "high"     -> 300
    [] quality = "premium"  -> 600
    [] OTHER                -> 120

\* (variant: the multiplier is not capped)
EstimateTrainingTime_NoCap(num_files, quality) ==
  (BaseTime(quality) * (num_files * 5)) \div 10

\* _estimate_training_time, lines 241-242: file_multiplier is kept in
\* tenths (min(num_files * 0.5, 3.0)), int() drops the fraction
EstimateTrainingTime(num_files, quality) ==
  (BaseTime(quality) * Min(num_files * 5, 30)) \div 10

\* the dict built at start_voice_cloning, lines 176-187, plus the keys the
\* worker adds later ("unset" / 0 / FALSE = key absent)
NewJob(files, quality) ==
  [ status        |-> "initializing",
    progress      |-> 0,
    current_stage |-> "Preparing for training...",
    created_at    |-> "datetime",
    audio_files   |-> files,
    quality       |-> quality,
    estimated_duration |-> EstimateTrainingTime(Len(files), quality),
    stage_details |-> 0,
    error         |-> "unset",
    failed_at     |-> FALSE,
    model_path    |-> FALSE,
    quality_score |-> FALSE,
    total_duration |-> -1,
    completed_at  |-> FALSE,
    future        |-> TRUE ]

NoJob == [NewJob(<< >>, "none") EXCEPT !.status = "none", !.created_at = "unset",
                                       !.current_stage = "none", !.future = FALSE]

NoLoc == [idx |-> 0, nchars |-> 0, total |-> 0, err |-> "none", created_at |-> << >>]

\* VoiceCloningEngine.__init__: empty registry, idle pool; the model store
\* holds no file under an id that has not been handed out yet
\* app.py after import: both dicts empty, no output file, no request yet
NoResponse == [op |-> "none", code |-> 0]

NoWeb ==
  [voice_models   |-> << >>,
   synthesis_jobs |-> << >>,
   outputs        |-> {},
   response       |-> NoResponse]

InitFor(ids) ==
  /\ registry = {}
  /\ job = [j \in ids |-> NoJob]
  /\ future = [j \in ids |-> "none"]
  /\ pc = [j \in ids |-> "none"]
  /\ loc = [j \in ids |-> NoLoc]
  /\ store = [j \in ids |-> "none"]
  /\ ccall = [j \in ids |-> [at |-> "idle", entry |-> "none", wpc |-> "none", widx |-> 0]]
  /\ cret = [j \in ids |-> "none"]
  /\ snap = [id |-> 0, raised |-> FALSE, value |-> NoJob]
  /\ dret = [id |-> 0, result |-> "none", orphan |-> FALSE]
  /\ clock = 0
  /\ meta = [j \in ids |-> << >>]
  /\ lret = << >>
  /\ web = NoWeb

\* neither function has been called on its own
NoCall == [op |-> "none"]

\* ------------------------------------------------------------ registry API
\* (variant: an id that may have been handed out already)
FreshId_Reuse == CHOOSE j \in JobIds : TRUE

\* uuid4(): an id never handed out before
FreshId == CHOOSE j \in JobIds : future[j] = "none" /\ \A k \in JobIds : future[k] = "none" => j <= k

\* (variant: the call waits for a free pool thread)
StartVoiceCloning_Blocking(files, quality) ==
  /\ \E j \in JobIds : future[j] = "none"
  /\ Cardinality({k \in JobIds : future[k] \in {"pending", "running"}}) < MaxWorkers
  /\ LET j == FreshId IN
       /\ registry' = registry \cup {j}
       /\ job' = [job EXCEPT ![j] = NewJob(files, quality)]
       /\ future' = [future EXCEPT ![j] = "pending"]
       /\ pc' = [pc EXCEPT ![j] = "queued"]
  /\ UNCHANGED << loc, store, meta, ccall, cret, snap, dret, clock, lret, call, web >>

\* start_voice_cloning: registers the record, submits the worker to the
\* pool, stores the future on the record, returns the id.  It never waits.
StartVoiceCloning(files, quality) ==
  /\ \E j \in JobIds : future[j] = "none"
  /\ LET j == FreshId IN
       /\ registry' = registry \cup {j}
       /\ job' = [job EXCEPT ![j] = NewJob(files, quality)]
       /\ future' = [future EXCEPT ![j] = "pending"]
       /\ pc' = [pc EXCEPT ![j] = "queued"]
  /\ UNCHANGED << loc, store, meta, ccall, cret, snap, dret, clock, lret, call, web >>

\* get_training_status, lines 209-215: the copy, with the future popped and
\* created_at turned into its isoformat() string
Snapshot(rec) == [rec EXCEPT !.future = FALSE, !.created_at = "isoformat"]

\* (variant: the record itself is handed out, future included)
GetTrainingStatus_KeepsFuture(j) ==
  /\ snap' = IF j \in registry
               THEN [id |-> j, raised |-> FALSE, value |-> job[j]]
               ELSE [id |-> j, raised |-> TRUE, value |-> NoJob]
  /\ UNCHANGED << registry, job, future, pc, loc, store, meta, ccall, cret, dret, clock, lret, call, web >>

\* (variant: the future is popped from the registry record itself)
GetTrainingStatus_InPlace(j) ==
  /\ snap' = IF j \in registry
               THEN [id |-> j, raised |-> FALSE, value |-> Snapshot(job[j])]
               ELSE [id |-> j, raised |-> TRUE, value |-> NoJob]
  /\ job' = IF j \in registry THEN [job EXCEPT ![j].future = FALSE] ELSE job
  /\ UNCHANGED << registry, future, pc, loc, store, meta, ccall, cret, dret, clock, lret, call, web >>

\* get_training_status: ValueError for an unknown id, else the copy
GetTrainingStatus(j) ==
  /\ snap' = IF j \in registry
               THEN [id |-> j, raised |-> FALSE, value |-> Snapshot(job[j])]
               ELSE [id |-> j, raised |-> TRUE, value |-> NoJob]
  /\ UNCHANGED << registry, job, future, pc, loc, store, meta, ccall, cret, dret, clock, lret, call, web >>

\* (variant: cancel() leaves a queued future in the queue)
FutureCancel_Never(f) == f

\* Future.cancel(): succeeds on a future no worker has picked up yet
FutureCancel(f) == IF f = "pending" THEN "cancelled" ELSE f

\* cancel_training, lines 221-222: unknown id
CancelUnknown(j) ==
  /\ ccall[j].at = "idle"
  /\ j \notin registry
  /\ cret' = [cret EXCEPT ![j] = "false"]
  /\ ccall' = [ccall EXCEPT ![j] = [at |-> "idle", entry |-> "none", wpc |-> "none", widx |-> 0]]
  /\ UNCHANGED << registry, job, future, pc, loc, store, meta, snap, dret, clock, lret, call, web >>

\* cancel_training, lines 221-228: known id; cancel the future, then
\* job['status'] = 'cancelled'
CancelBegin(j) ==
  /\ ccall[j].at = "idle"
  /\ j \in registry
  /\ future' = [future EXCEPT ![j] = FutureCancel(future[j])]
  /\ job' = [job EXCEPT ![j].status = "cancelled"]
  /\ ccall' = [ccall EXCEPT ![j] = [at |-> "L229", entry |-> job[j].status, wpc |-> pc[j], widx |-> loc[j].idx]]
  /\ UNCHANGED << registry, pc, loc, store, meta, cret, snap, dret, clock, lret, call, web >>

\* cancel_training, lines 229-230: job['progress'] = 0; return True
CancelFinish(j) ==
  /\ ccall[j].at = "L229"
  /\ job' = [job EXCEPT ![j].progress = 0]
  /\ ccall' = [ccall EXCEPT ![j].at = "idle"]
  /\ cret' = [cret EXCEPT ![j] = "true"]
  /\ UNCHANGED << registry, future, pc, loc, store, meta, snap, dret, clock, lret, call, web >>

\* (variant: the registry entry is not dropped)
DeleteVoiceModel_KeepsEntry(j) ==
  /\ store' = [store EXCEPT ![j] = "none"]
  /\ meta' = [meta EXCEPT ![j] = << >>]
  /\ dret' = [id |-> j, result |-> "true", orphan |-> (store[j] # "none" /\ j \notin registry)]
  /\ UNCHANGED << registry, job, future, pc, loc, ccall, cret, snap, clock, lret, call, web >>

\* (variant: the model file is unlinked only for an id the registry holds)
DeleteVoiceModel_NeedsEntry(j) ==
  /\ store' = [store EXCEPT ![j] = IF j \in registry THEN "none" ELSE store[j]]
  /\ meta' = [meta EXCEPT ![j] = IF j \in registry THEN << >> ELSE meta[j]]
  /\ registry' = registry \ {j}
  /\ dret' = [id |-> j, result |-> "true", orphan |-> (store[j] # "none" /\ j \notin registry)]
  /\ UNCHANGED << job, future, pc, loc, ccall, cret, snap, clock, lret, call, web >>

\* delete_voice_model, lines 454-463: unlink the model file if present, drop
\* the registry entry if present, return True
DeleteVoiceModel(j) ==
  /\ store' = [store EXCEPT ![j] = "none"]
  /\ meta' = [meta EXCEPT ![j] = << >>]
  /\ registry' = registry \ {j}
  /\ dret' = [id |-> j, result |-> "true", orphan |-> (store[j] # "none" /\ j \notin registry)]
  /\ UNCHANGED << job, future, pc, loc, ccall, cret, snap, clock, lret, call, web >>

\* delete_voice_model, lines 457-458 and 464-466: unlink raises on the
\* existing file; nothing is removed and the call returns False
DeleteVoiceModelFails(j) ==
  /\ store[j] # "none"
  /\ dret' = [id |-> j, result |-> "false", orphan |-> (j \notin registry)]
  /\ UNCHANGED << registry, job, future, pc, loc, store, meta, ccall, cret, snap, clock, lret, call, web >>

\* list_voice_models, lines 472-487: the ids of the files in model_dir that
\* load_voice_model can read
ListedIds == {j \in JobIds : store[j] = "complete"}

\* Python's str <: the first differing character decides, a proper prefix
\* is smaller
RECURSIVE StrLess(_, _)
StrLess(a, b) ==
  IF b = << >> THEN FALSE
  ELSE IF a = << >> THEN TRUE
  ELSE IF Head(a) # Head(b) THEN Head(a) < Head(b)
  ELSE StrLess(Tail(a), Tail(b))

\* model_dir.glob("*.pkl"): the files of the store, in any order
GlobOrders(st) ==
  LET files == {j \in DOMAIN st : st[j] # "none"}
  IN  {g \in [1..Cardinality(files) -> files] : \A a, b \in DOMAIN g : g[a] = g[b] => a = b}

\* lines 473-487: one summary per file that load_voice_model can read; a
\* file that does not unpickle is skipped
RECURSIVE Summaries(_, _, _)
Summaries(g, st, mt) ==
  IF g = << >> THEN << >>
  ELSE IF st[Head(g)] = "complete"
         THEN << [id |-> Head(g), created_at |-> mt[Head(g)]] >> \o Summaries(Tail(g), st, mt)
         ELSE Summaries(Tail(g), st, mt)

\* (variant: ascending order, oldest first)
RECURSIVE InsertSorted_Ascending(_, _)
InsertSorted_Ascending(x, s) ==
  IF s = << >> THEN << x >>
  ELSE IF StrLess(x.created_at, Head(s).created_at) THEN << x >> \o s
  ELSE << Head(s) >> \o InsertSorted_Ascending(x, Tail(s))

\* sorted(..., reverse=True) is stable: x goes behind every element whose
\* key is not smaller than its own
RECURSIVE InsertSorted(_, _)
InsertSorted(x, s) ==
  IF s = << >> THEN << x >>
  ELSE IF StrLess(Head(s).created_at, x.created_at) THEN << x >> \o s
  ELSE << Head(s) >> \o InsertSorted(x, Tail(s))

\* line 489: sorted(models, key=created_at, reverse=True)
RECURSIVE SortedNewestFirst(_)
SortedNewestFirst(models) ==
  IF models = << >> THEN << >>
  ELSE InsertSorted(models[Len(models)],
                    SortedNewestFirst(SubSeq(models, 1, Len(models) - 1)))

\* the values list_voice_models can return on a store st with contents mt
ListResults(st, mt) ==
  {SortedNewestFirst(Summaries(g, st, mt)) : g \in GlobOrders(st)}

\* list_voice_models, lines 468-489: reads the store, changes nothing
ListVoiceModels ==
  /\ lret' \in ListResults(store, meta)
  /\ UNCHANGED << registry, job, future, pc, loc, store, meta, ccall, cret, snap, dret, clock, call, web >>

\* ------------------------------------------------------------- worker pool
Running == {j \in JobIds : future[j] = "running"}

\* (variant: a pool thread ends after its first work item)
WorkerStart_NoReuse(j) ==
  /\ future[j] = "pending"
  /\ \A k \in JobIds : future[k] = "pending" => j <= k
  /\ Cardinality({k \in JobIds : future[k] \in {"running", "finished", "raised"}}) < MaxWorkers
  /\ future' = [future EXCEPT ![j] = "running"]
  /\ pc' = [pc EXCEPT ![j] = "L253"]
  /\ UNCHANGED << registry, job, loc, store, meta, ccall, cret, snap, dret, clock, lret, call, web >>

\* (variant: a work item starts whether or not a thread is free)
WorkerStart_NoCap(j) ==
  /\ future[j] = "pending"
  /\ \A k \in JobIds : future[k] = "pending" => j <= k
  /\ future' = [future EXCEPT ![j] = "running"]
  /\ pc' = [pc EXCEPT ![j] = "L253"]
  /\ UNCHANGED << registry, job, loc, store, meta, ccall, cret, snap, dret, clock, lret, call, web >>

\* a pool thread takes the oldest work item whose future was not cancelled
WorkerStart(j) ==
  /\ future[j] = "pending"
  /\ \A k \in JobIds : future[k] = "pending" => j <= k
  /\ Cardinality(Running) < MaxWorkers
  /\ future' = [future EXCEPT ![j] = "running"]
  /\ pc' = [pc EXCEPT ![j] = "L253"]
  /\ UNCHANGED << registry, job, loc, store, meta, ccall, cret, snap, dret, clock, lret, call, web >>

WorkerFrame == UNCHANGED << registry, ccall, cret, snap, dret, clock, lret, call, web >>

\* the worker of j writes one key of its record and moves on
SetField(j, newrec, next) ==
  /\ job' = [job EXCEPT ![j] = newrec]
  /\ pc' = [pc EXCEPT ![j] = next]
  /\ UNCHANGED << future, loc, store, meta >>
  /\ WorkerFrame

\* an exception inside the try block: control moves to the except clause
Raise(j, kind) ==
  /\ loc' = [loc EXCEPT ![j].err = kind]
  /\ pc' = [pc EXCEPT ![j] = "L385"]

\* line 253, outside the try: job = self.training_jobs[job_id]
L253(j) ==
  /\ pc[j] = "L253"
  /\ IF j \in registry
       THEN /\ pc' = [pc EXCEPT ![j] = "L271"]
            /\ UNCHANGED future
       ELSE /\ pc' = [pc EXCEPT ![j] = "done"]
            /\ future' = [future EXCEPT ![j] = "raised"]
  /\ UNCHANGED << job, loc, store, meta >>
  /\ WorkerFrame

\* Stage 1, lines 271-273
L271(j) == pc[j] = "L271" /\ SetField(j, [job[j] EXCEPT !.status = "analyzing"], "L272")
L272(j) == pc[j] = "L272" /\ SetField(j, [job[j] EXCEPT !.current_stage = Stages[1].label], "L273")
L273(j) == pc[j] = "L273" /\ SetField(j, [job[j] EXCEPT !.progress = StagePct(1)], "L275")

\* the path given as audio_files[i]
PathOf(i) == "audio_files[" \o ToString(i) \o "]"

\* line 277: f"Audio file not found: {file_path}"
NotFoundMessage(i) == "Audio file not found: " \o PathOf(i)

\* line 285: f"Audio file too short: {duration:.1f}s (minimum 2s)"
TooShortMessage(d) ==
  "Audio file too short: " \o ToString(d \div 10) \o "." \o ToString(d % 10)
    \o "s (minimum 2s)"

\* (variant: the duration test rejects a sample of exactly the minimum)
L275_RejectsMinimum(j) ==
  /\ pc[j] = "L275"
  /\ LET files == job[j].audio_files
         i == loc[j].idx
     IN IF i >= Len(files)
          THEN /\ pc' = [pc EXCEPT ![j] = "L290"]
               /\ loc' = [loc EXCEPT ![j].idx = 0]
          ELSE LET f == files[i + 1] IN
               IF ~f.exists THEN Raise(j, NotFoundMessage(i + 1))
               ELSE IF ~f.decodable THEN Raise(j, "Invalid audio file")
               ELSE IF f.duration <= MinDuration THEN Raise(j, TooShortMessage(f.duration))
               ELSE /\ loc' = [loc EXCEPT ![j].idx = i + 1,
                                          ![j].total = loc[j].total + f.duration]
                    /\ UNCHANGED pc
  /\ UNCHANGED << job, future, store, meta >>
  /\ WorkerFrame

\* lines 275-285: one pass of the validation loop, or its exit
L275(j) ==
  /\ pc[j] = "L275"
  /\ LET files == job[j].audio_files
         i == loc[j].idx
     IN IF i >= Len(files)
          THEN /\ pc' = [pc EXCEPT ![j] = "L290"]
               /\ loc' = [loc EXCEPT ![j].idx = 0]
          ELSE LET f == files[i + 1] IN
               IF ~f.exists THEN Raise(j, NotFoundMessage(i + 1))
               ELSE IF ~f.decodable THEN Raise(j, "Invalid audio file")
               ELSE IF f.duration < MinDuration THEN Raise(j, TooShortMessage(f.duration))
               ELSE /\ loc' = [loc EXCEPT ![j].idx = i + 1,
                                          ![j].total = loc[j].total + f.duration]
                    /\ UNCHANGED pc
  /\ UNCHANGED << job, future, store, meta >>
  /\ WorkerFrame

\* Stage 2, lines 290-291
L290(j) == pc[j] = "L290" /\ SetField(j, [job[j] EXCEPT !.current_stage = Stages[2].label], "L291")
L291(j) == pc[j] = "L291" /\ SetField(j, [job[j] EXCEPT !.progress = StagePct(2)], "L293")

\* (variant: a file whose extraction fails is skipped)
L293_SkipsFailure(j) ==
  /\ pc[j] = "L293"
  /\ LET files == job[j].audio_files
         i == loc[j].idx
     IN IF i >= Len(files)
          THEN /\ pc' = [pc EXCEPT ![j] = "L306"]
               /\ loc' = [loc EXCEPT ![j].idx = 0]
          ELSE IF ~files[i + 1].extractable
                 THEN /\ loc' = [loc EXCEPT ![j].idx = i + 1]
                      /\ UNCHANGED pc
                 ELSE /\ loc' = [loc EXCEPT ![j].nchars = loc[j].nchars + 1]
                      /\ pc' = [pc EXCEPT ![j] = "L301"]
  /\ UNCHANGED << job, future, store, meta >>
  /\ WorkerFrame

\* lines 293-297: load, preprocess, extract, append; or the loop's exit
L293(j) ==
  /\ pc[j] = "L293"
  /\ LET files == job[j].audio_files
         i == loc[j].idx
     IN IF i >= Len(files)
          THEN /\ pc' = [pc EXCEPT ![j] = "L306"]
               /\ loc' = [loc EXCEPT ![j].idx = 0]
          ELSE IF ~files[i + 1].extractable
                 THEN Raise(j, "Invalid audio file")
                 ELSE /\ loc' = [loc EXCEPT ![j].nchars = loc[j].nchars + 1]
                      /\ pc' = [pc EXCEPT ![j] = "L301"]
  /\ UNCHANGED << job, future, store, meta >>
  /\ WorkerFrame

\* lines 300-301: stage_progress, job['progress'] = min(stage_progress, 35)
StageProgress(i, n) ==
  StagePct(2) + ((StagePct(3) - StagePct(2)) * (i + 1)) \div n

L301(j) ==
  /\ pc[j] = "L301"
  /\ job' = [job EXCEPT ![j].progress =
               Min(StageProgress(loc[j].idx, Len(job[j].audio_files)), StagePct(3))]
  /\ loc' = [loc EXCEPT ![j].idx = loc[j].idx + 1]
  /\ pc' = [pc EXCEPT ![j] = "L293"]
  /\ UNCHANGED << future, store, meta >>
  /\ WorkerFrame

\* Stage 3, lines 306-307
L306(j) == pc[j] = "L306" /\ SetField(j, [job[j] EXCEPT !.current_stage = Stages[3].label], "L307")
L307(j) == pc[j] = "L307" /\ SetField(j, [job[j] EXCEPT !.progress = StagePct(3)], "L310")

\* line 310: _combine_voice_characteristics raises on an empty list
L310(j) ==
  /\ pc[j] = "L310"
  /\ IF loc[j].nchars = 0
       THEN Raise(j, "No voice characteristics to combine")
       ELSE /\ pc' = [pc EXCEPT ![j] = "L315"]
            /\ UNCHANGED loc
  /\ UNCHANGED << job, future, store, meta >>
  /\ WorkerFrame

\* Stage 4, lines 315-316
L315(j) == pc[j] = "L315" /\ SetField(j, [job[j] EXCEPT !.status = "training"], "L316")
L316(j) == pc[j] = "L316" /\ SetField(j, [job[j] EXCEPT !.current_stage = Stages[4].label], "L327")

\* (variant: the loop runs while i <= iterations)
L327_OneMore(j) ==
  /\ pc[j] = "L327"
  /\ IF loc[j].idx > TrainingIterations(job[j].quality)
       THEN /\ pc' = [pc EXCEPT ![j] = "L339"]
            /\ UNCHANGED future
       ELSE IF job[j].status = "cancelled"
              THEN /\ pc' = [pc EXCEPT ![j] = "done"]
                   /\ future' = [future EXCEPT ![j] = "finished"]
              ELSE /\ pc' = [pc EXCEPT ![j] = "L333"]
                   /\ UNCHANGED future
  /\ UNCHANGED << job, loc, store, meta >>
  /\ WorkerFrame

\* lines 327-329: loop head and the cancellation check
L327(j) ==
  /\ pc[j] = "L327"
  /\ IF loc[j].idx >= TrainingIterations(job[j].quality)
       THEN /\ pc' = [pc EXCEPT ![j] = "L339"]
            /\ UNCHANGED future
       ELSE IF job[j].status = "cancelled"
              THEN /\ pc' = [pc EXCEPT ![j] = "done"]
                   /\ future' = [future EXCEPT ![j] = "finished"]
              ELSE /\ pc' = [pc EXCEPT ![j] = "L333"]
                   /\ UNCHANGED future
  /\ UNCHANGED << job, loc, store, meta >>
  /\ WorkerFrame

\* lines 332-333
IterationProgress(i, iterations) ==
  StagePct(4) + ((StagePct(5) - StagePct(4)) * i) \div iterations

L333(j) ==
  /\ pc[j] = "L333"
  /\ SetField(j, [job[j] EXCEPT !.progress =
                    IterationProgress(loc[j].idx, TrainingIterations(job[j].quality))],
              "L334")

\* line 334, and the step to the next iteration
L334(j) ==
  /\ pc[j] = "L334"
  /\ job' = [job EXCEPT ![j].stage_details = loc[j].idx + 1]
  /\ loc' = [loc EXCEPT ![j].idx = loc[j].idx + 1]
  /\ pc' = [pc EXCEPT ![j] = "L327"]
  /\ UNCHANGED << future, store, meta >>
  /\ WorkerFrame

\* Stage 5, lines 339-340
L339(j) == pc[j] = "L339" /\ SetField(j, [job[j] EXCEPT !.current_stage = Stages[5].label], "L340")
L340(j) == pc[j] = "L340" /\ SetField(j, [job[j] EXCEPT !.progress = StagePct(5)], "L344")

\* Stage 6, lines 344-348 (the scorer at 348 touches no shared state)
L344(j) == pc[j] = "L344" /\ SetField(j, [job[j] EXCEPT !.current_stage = Stages[6].label], "L345")
L345(j) == pc[j] = "L345" /\ SetField(j, [job[j] EXCEPT !.progress = StagePct(6)], "L353")

\* Stage 7, lines 353-354
L353(j) == pc[j] = "L353" /\ SetField(j, [job[j] EXCEPT !.current_stage = Stages[7].label], "L354")
L354(j) == pc[j] = "L354" /\ SetField(j, [job[j] EXCEPT !.progress = StagePct(7)], "L364")

\* a character of the text datetime.isoformat() returns: a digit, or "."
Dot == 10

\* datetime.now().isoformat(), as far as ordering needs it: the seconds on
\* two digits, and the fraction only when it is not zero
IsoFormat(t) ==
  LET s == t \div 2
  IN  IF t % 2 = 0 THEN << s \div 10, s % 10 >>
                   ELSE << s \div 10, s % 10, Dot, 5 >>

\* lines 357-366: model_data, with 'created_at': datetime.now().isoformat()
L364(j) ==
  /\ pc[j] = "L364"
  /\ loc' = [loc EXCEPT ![j].created_at = IsoFormat(clock)]
  /\ pc' = [pc EXCEPT ![j] = "L369"]
  /\ UNCHANGED << job, future, store, meta >>
  /\ WorkerFrame

\* line 369: open(model_path, 'wb') creates the file, or fails
L369(j) ==
  /\ pc[j] = "L369"
  /\ \/ /\ store' = [store EXCEPT ![j] = "partial"]
        /\ pc' = [pc EXCEPT ![j] = "L370"]
        /\ UNCHANGED loc
     \/ /\ Raise(j, "OSError")
        /\ UNCHANGED store
  /\ UNCHANGED << job, future, meta >>
  /\ WorkerFrame

\* line 370: pickle.dump writes the model, or fails leaving what open made;
\* if the file was unlinked after open, the data goes to a file that has no
\* name in model_dir any more
L370(j) ==
  /\ pc[j] = "L370"
  /\ \/ /\ store' = [store EXCEPT ![j] = IF store[j] = "none" THEN "none" ELSE "complete"]
        /\ meta' = [meta EXCEPT ![j] = IF store[j] = "none" THEN << >> ELSE loc[j].created_at]
        /\ pc' = [pc EXCEPT ![j] = "L373"]
        /\ UNCHANGED loc
     \/ /\ Raise(j, "OSError")
        /\ UNCHANGED << store, meta >>
  /\ UNCHANGED << job, future >>
  /\ WorkerFrame

\* lines 373-377
L373(j) == pc[j] = "L373" /\ SetField(j, [job[j] EXCEPT !.status = "completed"], "L374")
L374(j) == pc[j] = "L374" /\ SetField(j, [job[j] EXCEPT !.model_path = TRUE], "L375")
L375(j) == pc[j] = "L375" /\ SetField(j, [job[j] EXCEPT !.quality_score = TRUE], "L376")
L376(j) == pc[j] = "L376" /\ SetField(j, [job[j] EXCEPT !.total_duration = loc[j].total], "L377")

\* line 377 and the return at 381
L377(j) ==
  /\ pc[j] = "L377"
  /\ job' = [job EXCEPT ![j].completed_at = TRUE]
  /\ pc' = [pc EXCEPT ![j] = "done"]
  /\ future' = [future EXCEPT ![j] = "finished"]
  /\ UNCHANGED << loc, store, meta >>
  /\ WorkerFrame

\* the except clause, lines 385-388
L385(j) == pc[j] = "L385" /\ SetField(j, [job[j] EXCEPT !.status = "failed"], "L386")
\* (variant: the except clause does not record the message)
L386_NoMessage(j) == pc[j] = "L386" /\ SetField(j, job[j], "L387")

L386(j) == pc[j] = "L386" /\ SetField(j, [job[j] EXCEPT !.error = loc[j].err], "L387")

L387(j) ==
  /\ pc[j] = "L387"
  /\ job' = [job EXCEPT ![j].failed_at = TRUE]
  /\ pc' = [pc EXCEPT ![j] = "done"]
  /\ future' = [future EXCEPT ![j] = "finished"]
  /\ UNCHANGED << loc, store, meta >>
  /\ WorkerFrame

WorkerStep(j) ==
  \/ L253(j) \/ L271(j) \/ L272(j) \/ L273(j) \/ L275(j)
  \/ L290(j) \/ L291(j) \/ L293(j) \/ L301(j)
  \/ L306(j) \/ L307(j) \/ L310(j)
  \/ L315(j) \/ L316(j) \/ L327(j) \/ L333(j) \/ L334(j)
  \/ L339(j) \/ L340(j) \/ L344(j) \/ L345(j) \/ L353(j) \/ L354(j)
  \/ L364(j) \/ L369(j) \/ L370(j)
  \/ L373(j) \/ L374(j) \/ L375(j) \/ L376(j) \/ L377(j)
  \/ L385(j) \/ L386(j) \/ L387(j)

\* ------------------------------------------------------------ quality score
\* a Python float: not-a-number, or a value (the scorer's values are kept in
\* units of 1/ScoreOne)
F(v) == [nan |-> FALSE, v |-> v]
NaN == [nan |-> TRUE, v |-> 0]

\* 1.0 in score units: a base quality is given in hundredths and a
\* multiplier in hundredths
ScoreOne == 10000

\* x < y on floats: false as soon as one side is not a number
FLess(x, y) == ~x.nan /\ ~y.nan /\ x.v < y.v

\* min(a, b) and max(a, b) of Python: a, unless b is strictly beyond it
PyMin(a, b) == IF FLess(b, a) THEN b ELSE a
PyMax(a, b) == IF FLess(a, b) THEN b ELSE a

\* characteristics.get('voice_quality_score', 0.5), in hundredths
BaseQuality(characteristics) ==
  IF "voice_quality_score" \in DOMAIN characteristics
    THEN characteristics["voice_quality_score"]
    ELSE F(50)

\* quality_multipliers.get(quality, 0.8), in hundredths
QualityMultiplier(quality) ==
  CASE quality = "draft"    -> 70
    [] quality = "standard" -> 80
    [] quality = "high"     -> 90
    [] quality = "premium"  -> 95
    [] OTHER                -> 80

\* base_quality * multiplier + noise
RawScore(base, multiplier, noise) ==
  IF base.nan \/ noise.nan THEN NaN ELSE F(base.v * multiplier + noise.v)

\* (variant: the lower clamp is missing)
ValidateModelQuality_NoFloor(characteristics, quality, noise) ==
  PyMin(F(ScoreOne),
        RawScore(BaseQuality(characteristics), QualityMultiplier(quality), noise))

\* _validate_model_quality, lines 428-440; noise is the value drawn by
\* np.random.normal(0, 0.05) in this call
ValidateModelQuality(characteristics, quality, noise) ==
  PyMax(F(0),
        PyMin(F(ScoreOne),
              RawScore(BaseQuality(characteristics), QualityMultiplier(quality), noise)))

\* profiles handed to the scorer: without the key, and with a quality that
\* is negative, zero, inside (0,1), one, above one, huge, not a number
Profiles ==
  {<< >>} \cup
  {[k \in {"voice_quality_score"} |-> b] :
     b \in {F(-50), F(0), F(37), F(100), F(150), F(1000000), NaN}}

ScoreTiers == Tiers \cup {"turbo"}

\* values np.random.normal can return, in score units
Noises == {F(-2000000), F(-500), F(0), F(1), F(500), F(2000000), NaN}

\* one evaluation of the scorer on the profile and tier at hand
ScoreCall ==
  /\ call.op \in {"profile", "score"}
  /\ \E noise \in Noises :
       call' = [op |-> "score",
                characteristics |-> call.characteristics,
                quality |-> call.quality,
                noise |-> noise,
                result |-> ValidateModelQuality(call.characteristics, call.quality, noise)]
  /\ UNCHANGED << registry, job, future, pc, loc, store, meta, ccall, cret, snap, dret, clock, lret, web >>

\* ------------------------------------------------ voice characteristics
\* An audio array, as far as extract_voice_characteristics depends on it:
\* the number of analysis frames, and the two ratios computed at lines 146
\* and 149, in hundredths.  A ratio is never negative; the jitter of silent
\* audio is 0/0, not a number.
NMfcc == 13
NChroma == 12

\* librosa.feature.mfcc(..., n_mfcc=13): one row per coefficient, one
\* column per frame
Mfcc(audio) == [r \in 1..NMfcc |-> [t \in 1..audio.frames |-> r * t]]

\* librosa.feature.chroma_stft with its 12 pitch classes
Chroma(audio) == [r \in 1..NChroma |-> [t \in 1..audio.frames |-> r + t]]

RECURSIVE RowSum(_)
RowSum(row) == IF row = << >> THEN 0 ELSE Head(row) + RowSum(Tail(row))

\* np.mean(matrix, axis=1): one mean per row
MeanRows(matrix) == [r \in DOMAIN matrix |-> RowSum(matrix[r]) \div Len(matrix[r])]

\* hnr * 0.5 + (1 - jitter) * 0.3 + 0.2, in score units
QualitySum(hnr, jitter) ==
  IF hnr.nan \/ jitter.nan THEN NaN
  ELSE F(hnr.v * 50 + (100 - jitter.v) * 30 + 2000)

\* (variant: the lower clamp is missing)
CalculateVoiceQuality_NoFloor(audio) ==
  PyMin(F(ScoreOne), QualitySum(audio.hnr, audio.jitter))

\* _calculate_voice_quality, lines 152-153
CalculateVoiceQuality(audio) ==
  PyMax(F(0), PyMin(F(ScoreOne), QualitySum(audio.hnr, audio.jitter)))

\* the fields of the returned VoiceCharacteristics that have a declared
\* shape or range, lines 111-122
ExtractVoiceCharacteristics(audio) ==
  [mfcc_features       |-> MeanRows(Mfcc(audio)),
   chroma_features     |-> MeanRows(Chroma(audio)),
   voice_quality_score |-> CalculateVoiceQuality(audio)]

Silent(frames) == [frames |-> frames, hnr |-> F(0), jitter |-> NaN]

\* audio arrays: silent, constant (no jitter), and voiced ones with small
\* to very large ratios
Audios ==
  {Silent(n) : n \in 1..MaxFrames} \cup
  {[frames |-> n, hnr |-> h, jitter |-> j] :
     n \in 1..MaxFrames,
     h \in {F(0), F(30), F(100), F(250), F(1000000)},
     j \in {F(0), F(50), F(100), F(500), F(100000)}}

\* one call of extract_voice_characteristics on the audio at hand
ExtractCall ==
  /\ call.op = "audio"
  /\ call' = [op |-> "extract", audio |-> call.audio,
              result |-> ExtractVoiceCharacteristics(call.audio)]
  /\ UNCHANGED << registry, job, future, pc, loc, store, meta, ccall, cret, snap, dret, clock, lret, web >>

\* --------------------------------------------------------- profile combiner
\* Floating-point numbers of the combiner's means.  A value is a whole
\* number of units; only the numbers with at most MantissaBits significant
\* bits exist, and every sum and quotient is rounded to the nearest of them,
\* ties to the even mantissa, as IEEE 754 does (with 53 bits for float64).
MantissaBits == 4

RECURSIVE Pow2(_)
Pow2(k) == IF k = 0 THEN 1 ELSE 2 * Pow2(k - 1)

\* the distance between neighbouring floats around num/den (at least one
\* unit: the values used are at least Pow2(MantissaBits - 1) units)
Ulp(num, den) ==
  CHOOSE u \in {Pow2(k) : k \in 0..12} :
    \/ /\ u = 1 /\ num < u * Pow2(MantissaBits) * den
    \/ /\ u * Pow2(MantissaBits - 1) * den <= num
       /\ num < u * Pow2(MantissaBits) * den

\* num/den rounded to a float
RoundToFloat(num, den) ==
  LET u == Ulp(num, den)
      lo == num \div (den * u)
      rest == num - lo * den * u
  IN  IF 2 * rest < den * u THEN lo * u
      ELSE IF 2 * rest > den * u THEN (lo + 1) * u
      ELSE IF lo % 2 = 0 THEN lo * u ELSE (lo + 1) * u

\* np.add.reduce over a short array: the elements are added in list order
RECURSIVE NpSum(_)
NpSum(xs) ==
  IF Len(xs) = 1 THEN xs[1]
  ELSE RoundToFloat(NpSum(SubSeq(xs, 1, Len(xs) - 1)) + xs[Len(xs)], 1)

\* np.mean(xs): the sum divided by the number of elements
NpMean(xs) == RoundToFloat(NpSum(xs), Len(xs))

\* the default formants of line 422
DefaultFormants == << 500, 1500, 2500, 3500 >>

\* all_formants, lines 414-416
RECURSIVE AllFormants(_)
AllFormants(list) ==
  IF list = << >> THEN << >> ELSE Head(list).formants \o AllFormants(Tail(list))

\* sorted(...) of a set of numbers
RECURSIVE Sorted(_)
Sorted(S) ==
  IF S = {} THEN << >>
  ELSE LET m == CHOOSE x \in S : \A y \in S : x <= y
       IN  << m >> \o Sorted(S \ {m})

\* s[:4]
FirstFour(s) == SubSeq(s, 1, Min(4, Len(s)))

\* (variant: the duplicates are kept)
RECURSIVE SortedWithDuplicates(_)
SortedWithDuplicates(s) ==
  IF s = << >> THEN << >>
  ELSE LET i == CHOOSE a \in DOMAIN s : \A b \in DOMAIN s : s[a] <= s[b]
       IN  << s[i] >> \o
           SortedWithDuplicates(SubSeq(s, 1, i - 1) \o SubSeq(s, i + 1, Len(s)))

CombinedFormants_KeepsDuplicates(all_formants) ==
  IF all_formants # << >>
    THEN FirstFour(SortedWithDuplicates(all_formants))
    ELSE DefaultFormants

\* lines 418-422: sorted(list(set(all_formants)))[:4], or the default
CombinedFormants(all_formants) ==
  IF all_formants # << >>
    THEN FirstFour(Sorted({all_formants[i] : i \in DOMAIN all_formants}))
    ELSE DefaultFormants

\* the values of one field over the list, in list order
Column(list, field) == [i \in DOMAIN list |-> list[i][field]]

\* the d-th components of a vector field over the list
ColumnAt(list, field, d) == [i \in DOMAIN list |-> list[i][field][d]]

\* np.mean(np.stack(...), axis=0).tolist()
MeanVector(list, field) ==
  [d \in DOMAIN list[1][field] |-> NpMean(ColumnAt(list, field, d))]

\* _combine_voice_characteristics, lines 390-424
CombineVoiceCharacteristics(list) ==
  IF list = << >>
    THEN [raised |-> TRUE, error |-> "No voice characteristics to combine"]
    ELSE [raised |-> FALSE,
          combined |->
            [fundamental_frequency |-> NpMean(Column(list, "fundamental_frequency")),
             spectral_centroid     |-> NpMean(Column(list, "spectral_centroid")),
             spectral_rolloff      |-> NpMean(Column(list, "spectral_rolloff")),
             zero_crossing_rate    |-> NpMean(Column(list, "zero_crossing_rate")),
             tempo                 |-> NpMean(Column(list, "tempo")),
             pitch_variance        |-> NpMean(Column(list, "pitch_variance")),
             voice_quality_score   |-> NpMean(Column(list, "voice_quality_score")),
             mfcc_features         |-> MeanVector(list, "mfcc_features"),
             chroma_features       |-> MeanVector(list, "chroma_features"),
             formants              |-> CombinedFormants(AllFormants(list))]]

\* a VoiceCharacteristics whose scalar fields all hold x
Sample(x, mfcc, chroma, formants) ==
  [fundamental_frequency |-> x, spectral_centroid |-> x, spectral_rolloff |-> x,
   zero_crossing_rate |-> x, tempo |-> x, pitch_variance |-> x,
   voice_quality_score |-> x,
   mfcc_features |-> mfcc, chroma_features |-> chroma, formants |-> formants]

\* the samples the combiner is run on
SamplePool ==
  { Sample(8,  << 8, 60 >>,  << 9 >>,  << >>),
    Sample(8,  << 9, 13 >>,  << 9 >>,  << 700, 1200 >>),
    Sample(9,  << 13, 8 >>,  << 14 >>, << 1200, 700, 2600 >>),
    Sample(13, << 8, 8 >>,   << 26 >>, << 300, 3000, 3500 >>),
    Sample(60, << 60, 9 >>,  << 52 >>, << 700, 700 >>),
    Sample(60, << 10, 10 >>, << 8 >>,  << >>) }

\* one run of the combiner on the list at hand
CombineCall ==
  /\ call.op = "characteristics"
  /\ call' = [op |-> "combined", list |-> call.list,
              result |-> CombineVoiceCharacteristics(call.list)]
  /\ UNCHANGED << registry, job, future, pc, loc, store, meta, ccall, cret, snap, dret, clock, lret, web >>

\* ---------------------------------------------------------- time estimate
\* one call of _estimate_training_time on the request at hand
EstimateCall ==
  /\ call.op = "request"
  /\ call' = [op |-> "estimate", num_files |-> call.num_files, quality |-> call.quality,
              result |-> EstimateTrainingTime(call.num_files, call.quality)]
  /\ UNCHANGED << registry, job, future, pc, loc, store, meta, ccall, cret, snap, dret, clock, lret, web >>

\* ------------------------------------------------------ formant estimation
\* The magnitude spectrum of a real signal of n samples is symmetric:
\* magnitude[n - k] = magnitude[k].  It is built here from its bins 0..m,
\* m being the middle bin of an even n or the last positive one of an odd n.
RECURSIVE Reverse(_)
Reverse(s) == IF s = << >> THEN << >> ELSE Reverse(Tail(s)) \o << Head(s) >>

Mirror(h, even) ==
  IF even THEN h \o Reverse(SubSeq(h, 2, Len(h) - 1))
          ELSE h \o Reverse(SubSeq(h, 2, Len(h)))

Spectra ==
  {Mirror(h, e) :
     h \in { t \in SeqsUpTo({0, 10}, MaxBins + 1) \cup SeqsUpTo({0, 1, 10}, MaxFineBins + 1) :
               Len(t) >= 2 },
     e \in BOOLEAN}

\* np.max
NpMax(x) == CHOOSE v \in {x[i] : i \in DOMAIN x} : \A i \in DOMAIN x : x[i] <= v

\* the inner loop of scipy's local-maxima search: the first position after
\* i, before the last one, whose value differs from x[i]
RECURSIVE PlateauEnd(_, _, _)
PlateauEnd(x, i, ahead) ==
  IF ahead < Len(x) /\ x[ahead] = x[i] THEN PlateauEnd(x, i, ahead + 1) ELSE ahead

\* the outer loop, from position i on (positions count from 1): a rise
\* followed, after a flat stretch, by a fall gives the middle of the stretch
RECURSIVE LocalMaxima(_, _)
LocalMaxima(x, i) ==
  IF i >= Len(x) THEN << >>
  ELSE IF x[i - 1] < x[i]
         THEN LET ahead == PlateauEnd(x, i, i + 1)
              IN  IF x[ahead] < x[i]
                    THEN << (i + ahead - 1) \div 2 >> \o LocalMaxima(x, ahead + 1)
                    ELSE LocalMaxima(x, i + 1)
         ELSE LocalMaxima(x, i + 1)

\* the peaks, among ps, of height x[p] >= top * 0.1
RECURSIVE AtLeastTenth(_, _, _)
AtLeastTenth(x, ps, top) ==
  IF ps = << >> THEN << >>
  ELSE IF 10 * x[Head(ps)] >= top
         THEN << Head(ps) >> \o AtLeastTenth(x, Tail(ps), top)
         ELSE AtLeastTenth(x, Tail(ps), top)

\* the peaks, among ps, of height x[p] > top * 0.1
RECURSIVE AboveTenth(_, _, _)
AboveTenth(x, ps, top) ==
  IF ps = << >> THEN << >>
  ELSE IF 10 * x[Head(ps)] > top
         THEN << Head(ps) >> \o AboveTenth(x, Tail(ps), top)
         ELSE AboveTenth(x, Tail(ps), top)

\* (variant: the height must exceed the tenth of the maximum)
FindPeaks_Above(x, top) == AboveTenth(x, LocalMaxima(x, 2), top)

\* scipy.signal.find_peaks(x, height=top * 0.1): positions of the peaks
FindPeaks(x, top) == AtLeastTenth(x, LocalMaxima(x, 2), top)

\* np.fft.fftfreq(n, 1/sample_rate)[k], in units of sample_rate / n
FftFreq(k, n) == IF k <= (n - 1) \div 2 THEN k ELSE k - n

\* [f for f in formant_freqs if f > 0]
RECURSIVE KeepPositive(_)
KeepPositive(fs) ==
  IF fs = << >> THEN << >>
  ELSE IF Head(fs) > 0 THEN << Head(fs) >> \o KeepPositive(Tail(fs))
  ELSE KeepPositive(Tail(fs))

\* _estimate_formants, lines 129-138, from the magnitude spectrum on
EstimateFormants(magnitude) ==
  LET n == Len(magnitude)
      peaks == FindPeaks(SubSeq(magnitude, 1, n \div 2), NpMax(magnitude))
      freqs == [i \in DOMAIN peaks |-> FftFreq(peaks[i] - 1, n)]
  IN  KeepPositive(FirstFour(SortedWithDuplicates(freqs)))

\* one call of _estimate_formants on the spectrum at hand
FormantsCall ==
  /\ call.op = "spectrum"
  /\ call' = [op |-> "formants", magnitude |-> call.magnitude,
              result |-> EstimateFormants(call.magnitude)]
  /\ UNCHANGED << registry, job, future, pc, loc, store, meta, ccall, cret, snap, dret, clock, lret, web >>

\* ---------------------------------------------------------- web application
\* Strings are sequences of characters; str.strip() drops the blanks at
\* both ends.
RECURSIVE LStrip(_)
LStrip(str) ==
  IF str # << >> /\ Head(str) = " " THEN LStrip(Tail(str)) ELSE str

RECURSIVE RStrip(_)
RStrip(str) ==
  IF str # << >> /\ str[Len(str)] = " "
    THEN RStrip(SubSeq(str, 1, Len(str) - 1))
    ELSE str

Strip(str) == RStrip(LStrip(str))

ALLOWED_EXTENSIONS == {"wav", "mp3", "ogg", "m4a", "flac"}

\* str.lower() on the extensions used here
Lower(word) == IF word = "WAV" THEN "wav" ELSE word

\* A file name is the sequence of its pieces, "." being a piece of its own.
\* filename.rsplit('.', 1)[1]: what follows the last "."
AfterLastDot(filename) ==
  LET dots == {i \in 1..Len(filename) : filename[i] = "."}
      last == CHOOSE i \in dots : \A k \in dots : k <= i
  IN  SubSeq(filename, last + 1, Len(filename))

\* allowed_file, lines 45-47
AllowedFile(filename) ==
  /\ \E i \in 1..Len(filename) : filename[i] = "."
  /\ LET ext == AfterLastDot(filename)
     IN  Len(ext) = 1 /\ Lower(ext[1]) \in ALLOWED_EXTENSIONS

\* an uploaded file: its name, whether librosa.load decodes it, and its
\* duration in tenths of a second
Upload(filename, decodable, duration) ==
  [filename |-> filename, decodable |-> decodable, duration |-> duration]

NoFile   == Upload(<< >>, FALSE, 0)
TestWav  == Upload(<<"test", ".", "wav">>, TRUE, 20)
TalkWav  == Upload(<<"talk", ".", "WAV">>, TRUE, 120)
NotesTxt == Upload(<<"notes", ".", "txt">>, FALSE, 0)
BadWav   == Upload(<<"bad", ".", "wav">>, FALSE, 0)

\* the file lists of the clone requests
UploadLists ==
  { << NoFile >>, << TestWav >>, << TalkWav >>, << NotesTxt >>, << BadWav >>,
    << TestWav, TestWav >>, << TestWav, TalkWav >>, << NotesTxt, TalkWav >>,
    << TalkWav, BadWav >>, << NoFile, TalkWav >>, << TalkWav, TalkWav, TalkWav >> }

VoiceNames == { << >>, <<" ">>, <<" ", "T", "V">> }

\* the form of a clone request: is there an 'audio_files' part, its files,
\* and the fields voice_name and quality
CloneRequests ==
  {[has_part |-> FALSE, files |-> << >>, voice_name |-> <<"T", "V">>, quality |-> "standard"]}
  \cup
  {[has_part |-> TRUE, files |-> f, voice_name |-> n, quality |-> q] :
     f \in UploadLists, n \in VoiceNames,
     q \in {"standard", "turbo"}}

\* the loop of lines 305-328 over the files not yet seen: the files kept so
\* far, or "invalid" at the first allowed file that librosa cannot load
RECURSIVE SaveUploads(_, _)
SaveUploads(files, kept) ==
  IF files = << >> THEN kept
  ELSE LET file == Head(files)
       IN  IF file.filename # << >> /\ AllowedFile(file.filename)
             THEN IF file.decodable
                    THEN SaveUploads(Tail(files), Append(kept, file))
                    ELSE "invalid"
             ELSE SaveUploads(Tail(files), kept)

RECURSIVE SumDurations(_)
SumDurations(kept) ==
  IF kept = << >> THEN 0 ELSE Head(kept).duration + SumDurations(Tail(kept))

\* the status with which clone_voice answers the form r, lines 283-334
CloneVerdict(r) ==
  IF ~r.has_part THEN 400
  ELSE IF r.files = << >> \/ \A i \in 1..Len(r.files) : r.files[i].filename = << >> THEN 400
  ELSE IF Strip(r.voice_name) = << >> THEN 400
  ELSE IF r.quality \notin {"draft", "standard", "high", "premium"} THEN 400
  ELSE LET kept == SaveUploads(r.files, << >>)
       IN  IF kept = "invalid" THEN 400
           ELSE IF kept = << >> THEN 400
           ELSE IF SumDurations(kept) < MinTotalDuration THEN 400
           ELSE 200

VoiceIds == 1..MaxVoices
SynthIds == 1..MaxSynth

\* generate_job_id(): a uuid4 no dict holds yet
FreshVoiceId ==
  CHOOSE v \in VoiceIds \ DOMAIN web.voice_models :
    \A u \in VoiceIds \ DOMAIN web.voice_models : v <= u

FreshSynthId ==
  CHOOSE i \in SynthIds \ DOMAIN web.synthesis_jobs :
    \A u \in SynthIds \ DOMAIN web.synthesis_jobs : i <= u

WebFrame ==
  UNCHANGED << registry, job, future, pc, loc, store, meta, ccall, cret, snap,
               dret, clock, lret, call >>

\* POST /api/voices/clone, lines 281-380
CloneVoice(r) ==
  /\ IF CloneVerdict(r) = 400
       THEN web' = [web EXCEPT !.response = [op |-> "clone", code |-> 400]]
       ELSE /\ VoiceIds \ DOMAIN web.voice_models # {}
            /\ LET voice_id == FreshVoiceId
                   kept == SaveUploads(r.files, << >>)
               IN  web' = [web EXCEPT
                     !.voice_models = (voice_id :>
                        [id |-> voice_id,
                         name |-> Strip(r.voice_name),
                         quality |-> r.quality,
                         status |-> "completed",
                         progress |-> 100,
                         current_stage |-> "Model ready",
                         audio_files |-> Len(kept)]) @@ @,
                     !.response = [op |-> "clone", code |-> 200,
                                   voice_id |-> voice_id,
                                   name |-> Strip(r.voice_name),
                                   status |-> "completed"]]
  /\ WebFrame

\* GET /api/voices/clone/status/<voice_id>, lines 382-398
GetCloningStatus(voice_id) ==
  /\ web' = [web EXCEPT !.response =
       IF voice_id \notin DOMAIN web.voice_models
         THEN [op |-> "clone_status", code |-> 404, voice_id |-> voice_id]
         ELSE [op |-> "clone_status", code |-> 200, voice_id |-> voice_id,
               name |-> web.voice_models[voice_id].name,
               status |-> web.voice_models[voice_id].status,
               progress |-> web.voice_models[voice_id].progress]]
  /\ WebFrame

BuiltinVoices == {"sarah_us", "david_uk", "maria_es"}

\* GET /api/voices, lines 87-139
GetVoices ==
  /\ web' = [web EXCEPT !.response =
       [op |-> "voices", code |-> 200,
        custom_voices |-> {[id |-> v, name |-> web.voice_models[v].name,
                            quality |-> web.voice_models[v].quality] :
                             v \in DOMAIN web.voice_models},
        total_count |-> Cardinality(BuiltinVoices) + Cardinality(DOMAIN web.voice_models)]]
  /\ WebFrame

\* the JSON body of a synthesize request: absent, or an object with or
\* without 'text'; speed, pitch and volume in tenths
SynthRequests ==
  {[body |-> FALSE, has_text |-> FALSE, text |-> << >>, speed |-> 10, pitch |-> 10, volume |-> 10],
   [body |-> TRUE, has_text |-> FALSE, text |-> << >>, speed |-> 10, pitch |-> 10, volume |-> 10]}
  \cup
  {[body |-> TRUE, has_text |-> TRUE, text |-> t, speed |-> s, pitch |-> p, volume |-> v] :
     t \in {<< >>, <<" ", " ">>, <<" ", "h", "i">>},
     s \in {0, 1, 30, 31}, p \in {1, 21}, v \in {0, 11}}

\* the status with which synthesize_speech answers before it creates a job,
\* lines 147-167; 0 when it goes on
SynthVerdict(d) ==
  IF ~d.body \/ ~d.has_text THEN 400
  ELSE IF Strip(d.text) = << >> THEN 400
  ELSE IF ~(1 <= d.speed /\ d.speed <= 30) THEN 400
  ELSE IF ~(1 <= d.pitch /\ d.pitch <= 20) THEN 400
  ELSE IF ~(0 <= d.volume /\ d.volume <= 10) THEN 400
  ELSE 0

Processing == [status |-> "processing", progress |-> 50, parameters |-> TRUE]
Failed == [status |-> "failed", error |-> TRUE]
Completed(job_id) ==
  [status |-> "completed", progress |-> 100, parameters |-> TRUE,
   output_file |-> job_id]

\* (variant: the job is created before the parameters are validated)
SynthesizeSpeech_CreatesFirst(d) ==
  /\ IF SynthVerdict(d) = 400 /\ (~d.body \/ ~d.has_text \/ Strip(d.text) = << >>)
       THEN web' = [web EXCEPT !.response = [op |-> "synthesize", code |-> 400]]
       ELSE /\ SynthIds \ DOMAIN web.synthesis_jobs # {}
            /\ LET job_id == FreshSynthId
               IN  IF SynthVerdict(d) = 400
                     THEN web' = [web EXCEPT
                            !.synthesis_jobs = (job_id :> Processing) @@ @,
                            !.response = [op |-> "synthesize", code |-> 400]]
                     ELSE web' = [web EXCEPT
                            !.synthesis_jobs = (job_id :> Processing) @@ @]
  /\ WebFrame

\* POST /api/tts/synthesize, lines 141-211: up to the call of tts.save,
\* which waits for the speech service; gTTS(...) itself may raise
SynthesizeSpeech(d) ==
  /\ IF SynthVerdict(d) = 400
       THEN web' = [web EXCEPT !.response = [op |-> "synthesize", code |-> 400]]
       ELSE /\ SynthIds \ DOMAIN web.synthesis_jobs # {}
            /\ LET job_id == FreshSynthId
               IN  \/ web' = [web EXCEPT
                        !.synthesis_jobs = (job_id :> Processing) @@ @]
                   \/ web' = [web EXCEPT
                        !.synthesis_jobs = (job_id :> Failed) @@ @,
                        !.response = [op |-> "synthesize", code |-> 500, job_id |-> job_id]]
  /\ WebFrame

\* lines 211-234: tts.save has written the file; the job is completed
SynthesizeSaved(job_id) ==
  /\ job_id \in DOMAIN web.synthesis_jobs
  /\ web.synthesis_jobs[job_id].status = "processing"
  /\ web' = [web EXCEPT
       !.synthesis_jobs[job_id] = Completed(job_id),
       !.outputs = @ \cup {job_id},
       !.response = [op |-> "synthesize", code |-> 200, job_id |-> job_id,
                     status |-> "completed"]]
  /\ WebFrame

\* lines 211, 236-243: tts.save raised, with or without a file left behind
SynthesizeFailed(job_id) ==
  /\ job_id \in DOMAIN web.synthesis_jobs
  /\ web.synthesis_jobs[job_id].status = "processing"
  /\ \E partial \in BOOLEAN :
       web' = [web EXCEPT
         !.synthesis_jobs[job_id] = Failed,
         !.outputs = IF partial THEN @ \cup {job_id} ELSE @,
         !.response = [op |-> "synthesize", code |-> 500, job_id |-> job_id]]
  /\ WebFrame

\* GET /api/tts/status/<job_id>, lines 245-252
GetSynthesisStatus(job_id) ==
  /\ web' = [web EXCEPT !.response =
       IF job_id \notin DOMAIN web.synthesis_jobs
         THEN [op |-> "status", code |-> 404, job_id |-> job_id]
         ELSE [op |-> "status", code |-> 200, job_id |-> job_id,
               body |-> web.synthesis_jobs[job_id]]]
  /\ WebFrame

\* the status with which download answers, lines 258-271
DownloadVerdict(job_id) ==
  IF job_id \notin DOMAIN web.synthesis_jobs THEN 404
  ELSE LET record == web.synthesis_jobs[job_id]
       IN  IF record.status # "completed" THEN 400
           ELSE IF "output_file" \notin DOMAIN record THEN 404
           ELSE IF record.output_file \notin web.outputs THEN 404
           ELSE 200

\* (variant: the status of the job is not looked at)
DownloadSynthesizedAudio_AnyStatus(job_id) ==
  /\ web' = [web EXCEPT !.response =
       [op |-> "download", job_id |-> job_id,
        code |-> IF job_id \notin DOMAIN web.synthesis_jobs THEN 404
                 ELSE IF job_id \notin web.outputs THEN 404
                 ELSE 200]]
  /\ WebFrame

\* GET /api/tts/download/<job_id>, lines 254-277
DownloadSynthesizedAudio(job_id) ==
  /\ web' = [web EXCEPT !.response =
       [op |-> "download", code |-> DownloadVerdict(job_id), job_id |-> job_id]]
  /\ WebFrame

\* --------------------------------------------------------- specifications
\* Spec: one job, every request of up to MaxFiles files, with cancel and
\* delete calls arriving at any moment of the worker's run.
Requests == SeqsUpTo(FilePool, MaxFiles) \X {"draft"}

Init == InitFor({1}) /\ call = NoCall

Next ==
  \/ \E r \in Requests : StartVoiceCloning(r[1], r[2])
  \/ \E j \in JobIds : WorkerStart(j)
  \/ \E j \in JobIds : WorkerStep(j)
  \/ \E j \in JobIds : CancelUnknown(j)
  \/ \E j \in JobIds : CancelBegin(j)
  \/ \E j \in JobIds : CancelFinish(j)
  \/ \E j \in JobIds : DeleteVoiceModel(j)
  \/ \E j \in JobIds : DeleteVoiceModelFails(j)

Spec == Init /\ [][Next]_vars

\* SpecStatus: the same job polled by get_training_status at any moment;
\* one request per way a run can end.
StatusRequests ==
  { << << >>, "draft" >>, << <<Good>>, "draft" >>, << <<Missing>>, "draft" >>,
    << <<Short>>, "draft" >>, << <<Corrupt>>, "draft" >>, << <<Flaky>>, "draft" >> }

NextStatus ==
  \/ \E r \in StatusRequests : StartVoiceCloning(r[1], r[2])
  \/ \E j \in JobIds : WorkerStart(j)
  \/ \E j \in JobIds : WorkerStep(j)
  \/ \E j \in JobIds : GetTrainingStatus(j)
  \/ \E j \in JobIds : CancelUnknown(j)
  \/ \E j \in JobIds : CancelBegin(j)
  \/ \E j \in JobIds : CancelFinish(j)
  \/ \E j \in JobIds : DeleteVoiceModel(j)
  \/ \E j \in JobIds : DeleteVoiceModelFails(j)

SpecStatus == Init /\ [][NextStatus]_vars

\* SpecTwo: two jobs, one that completes and one that fails at once, with
\* delete_voice_model called on either id at any moment.
TwoRequests == { << <<Good>>, "draft" >>, << <<Missing>>, "draft" >> }

InitTwo == InitFor({1, 2}) /\ call = NoCall

NextTwo ==
  \/ \E r \in TwoRequests : StartVoiceCloning(r[1], r[2])
  \/ \E j \in JobIds : WorkerStart(j)
  \/ \E j \in JobIds : WorkerStep(j)
  \/ \E j \in JobIds : DeleteVoiceModel(j)
  \/ \E j \in JobIds : DeleteVoiceModelFails(j)

SpecTwo == InitTwo /\ [][NextTwo]_vars

\* SpecPool: more jobs than the pool has threads, submitted at any moment;
\* each job fails at its first file, so that the runs stay short.
PoolRequests == { << <<Missing>>, "draft" >> }

PoolIds == 1..MaxJobs

InitPool == InitFor(PoolIds) /\ call = NoCall

NextPool ==
  \/ \E r \in PoolRequests : StartVoiceCloning(r[1], r[2])
  \/ \E j \in JobIds : WorkerStart(j)
  \/ \E j \in JobIds : WorkerStep(j)

SpecPool == InitPool /\ [][NextPool]_vars

\* the pool's threads keep running: as long as a thread can take a work
\* item or a started worker has a statement to execute, one of them does
PoolStep == \E j \in PoolIds : WorkerStart(j) \/ WorkerStep(j)

SpecPoolFair == SpecPool /\ WF_vars(PoolStep)

\* SpecList: two jobs with valid input running side by side while the wall
\* clock advances, with list_voice_models and delete_voice_model called at
\* any moment.
ListRequests == { << <<Good>>, "draft" >> }

\* time passes
Tick ==
  /\ clock < MaxClock
  /\ clock' = clock + 1
  /\ UNCHANGED << registry, job, future, pc, loc, store, meta, ccall, cret, snap, dret, lret, call, web >>

InitList == InitFor({1, 2}) /\ call = NoCall

NextList ==
  \/ \E r \in ListRequests : StartVoiceCloning(r[1], r[2])
  \/ \E j \in JobIds : WorkerStart(j)
  \/ \E j \in JobIds : WorkerStep(j)
  \/ \E j \in JobIds : DeleteVoiceModel(j)
  \/ ListVoiceModels
  \/ Tick

SpecList == InitList /\ [][NextList]_vars

\* SpecStore: two jobs with valid input and every operation of the engine;
\* delete_voice_model and list_voice_models are called at any moment,
\* cancel_training and get_training_status while a model is stored and no
\* worker is running.
AtRest ==
  /\ \E k \in JobIds : store[k] = "complete"
  /\ \A k \in JobIds : pc[k] \in {"none", "done"}

NextStore ==
  \/ \E r \in ListRequests : StartVoiceCloning(r[1], r[2])
  \/ \E j \in JobIds : WorkerStart(j)
  \/ \E j \in JobIds : WorkerStep(j)
  \/ \E j \in JobIds : AtRest /\ GetTrainingStatus(j)
  \/ \E j \in JobIds : AtRest /\ CancelUnknown(j)
  \/ \E j \in JobIds : AtRest /\ CancelBegin(j)
  \/ \E j \in JobIds : CancelFinish(j)
  \/ \E j \in JobIds : DeleteVoiceModel(j)
  \/ \E j \in JobIds : DeleteVoiceModelFails(j)
  \/ ListVoiceModels

SpecStore == InitList /\ [][NextStore]_vars

\* SpecScore: the quality scorer evaluated, any number of times, on every
\* profile and tier.
InitScore ==
  /\ InitFor({1})
  /\ call \in {[op |-> "profile", characteristics |-> c, quality |-> q] :
                 c \in Profiles, q \in ScoreTiers}

NextScore == ScoreCall

SpecScore == InitScore /\ [][NextScore]_vars

\* SpecCombine: the combiner run on every list of up to MaxSamples samples.
InitCombine ==
  /\ InitFor({1})
  /\ call \in {[op |-> "characteristics", list |-> l] :
                 l \in SeqsUpTo(SamplePool, MaxSamples)}

NextCombine == CombineCall

SpecCombine == InitCombine /\ [][NextCombine]_vars

\* SpecTiers: one job with valid input in each quality tier, with
\* cancel_training called at any moment.
TierRequests == { << <<Good>>, q >> : q \in Tiers }

NextTiers ==
  \/ \E r \in TierRequests : StartVoiceCloning(r[1], r[2])
  \/ \E j \in JobIds : WorkerStart(j)
  \/ \E j \in JobIds : WorkerStep(j)
  \/ \E j \in JobIds : CancelUnknown(j)
  \/ \E j \in JobIds : CancelBegin(j)
  \/ \E j \in JobIds : CancelFinish(j)

SpecTiers == Init /\ [][NextTiers]_vars

\* SpecEstimate: the estimate computed on its own and recorded at
\* submission, for every number of files up to MaxCount and every tier.
InitEstimate ==
  /\ InitFor({1})
  /\ call \in {[op |-> "request", num_files |-> n, quality |-> q] :
                 n \in 0..MaxCount, q \in ScoreTiers}

NextEstimate ==
  \/ EstimateCall
  \/ StartVoiceCloning([i \in 1..call.num_files |-> Good], call.quality)

SpecEstimate == InitEstimate /\ [][NextEstimate]_vars

\* SpecExtract: extract_voice_characteristics run on every audio array.
InitExtract ==
  /\ InitFor({1})
  /\ call \in {[op |-> "audio", audio |-> a] : a \in Audios}

NextExtract == ExtractCall

SpecExtract == InitExtract /\ [][NextExtract]_vars

\* SpecWeb: the web application serving any requests, the synthesize
\* requests overlapping with each other and with every other request.
InitWeb == InitFor({1}) /\ call = NoCall

NextWeb ==
  \/ \E r \in CloneRequests : CloneVoice(r)
  \/ \E v \in VoiceIds \cup {0} : GetCloningStatus(v)
  \/ GetVoices
  \/ \E d \in SynthRequests : SynthesizeSpeech(d)
  \/ \E i \in SynthIds : SynthesizeSaved(i)
  \/ \E i \in SynthIds : SynthesizeFailed(i)
  \/ \E i \in SynthIds \cup {0} : GetSynthesisStatus(i)
  \/ \E i \in SynthIds \cup {0} : DownloadSynthesizedAudio(i)

SpecWeb == InitWeb /\ [][NextWeb]_vars

\* SpecFormants: _estimate_formants run on every spectrum.
InitFormants ==
  /\ InitFor({1})
  /\ call \in {[op |-> "spectrum", magnitude |-> m] : m \in Spectra}

NextFormants == FormantsCall

SpecFormants == InitFormants /\ [][NextFormants]_vars

\* ------------------------------------------------------------------ claims
Registered(j) == j \in registry /\ j \in registry'

\* C1: once a job's status is completed, failed or cancelled, no field of
\* its registry record changes in any later step.
C1_TerminalRecordImmutable ==
  [][\A j \in JobIds :
       (Registered(j) /\ Terminal(job[j].status)) => job'[j] = job[j]]_vars

InTrainingLoop == {"L316", "L327", "L333", "L334"}

\* the last cancel_training call on j arrived while its worker was inside
\* the synthetic-training stage
CancelledInTraining(j) ==
  /\ j \in registry
  /\ ccall[j].entry = "training"
  /\ ccall[j].wpc \in InTrainingLoop

\* C2: after a cancel_training call that arrives while the worker is inside
\* the synthetic-training stage (status training, loop not yet left), the
\* worker runs at most one more iteration, the job ends in status cancelled
\* and no model file is ever written for it.
C2_CancelDuringTrainingCancels ==
  \A j \in JobIds :
    CancelledInTraining(j) =>
      /\ pc[j] \in InTrainingLoop => loc[j].idx <= ccall[j].widx + 1
      /\ store[j] = "none"
      /\ pc[j] = "done" => job[j].status = "cancelled"

BeforeTraining ==
  {"L253", "L271", "L272", "L273", "L275", "L290", "L291", "L293", "L301",
   "L306", "L307", "L310", "L315"}

\* the last cancel_training call on j arrived while its started worker was
\* in a stage before the synthetic-training stage
CancelledBeforeTraining(j) ==
  /\ j \in registry
  /\ ccall[j].entry \in {"initializing", "analyzing"}
  /\ ccall[j].wpc \in BeforeTraining

\* C3: a cancellation requested while the started worker is in a stage
\* before training (status initializing or analyzing) is still set when the
\* worker reaches the first iteration check; the worker stops there, the job
\* ends in status cancelled and no model file is written.
C3_CancelBeforeTrainingCancels ==
  \A j \in JobIds :
    CancelledBeforeTraining(j) =>
      /\ (pc[j] = "L327" /\ loc[j].idx = 0) => job[j].status = "cancelled"
      /\ pc[j] \notin {"L333", "L334"}
      /\ store[j] = "none"
      /\ (pc[j] = "done" /\ loc[j].err = "none") => job[j].status = "cancelled"

\* C4: no step of the system lowers a job's progress.
C4_ProgressMonotone ==
  [][\A j \in JobIds : Registered(j) => job'[j].progress >= job[j].progress]_vars

\* C5: a job whose progress is 100 has status completed.
C5_HundredOnlyCompleted ==
  \A j \in registry : job[j].progress = 100 * PScale => job[j].status = "completed"

AllowedTransition(a, b) ==
  \/ a = "initializing" /\ b = "analyzing"
  \/ a = "analyzing" /\ b = "training"
  \/ a = "training" /\ b = "completed"
  \/ a \in {"initializing", "analyzing", "training"} /\ b \in {"failed", "cancelled"}

\* C6: every change of a job's status is an allowed transition.
C6_OnlyAllowedTransitions ==
  [][\A j \in JobIds :
       (Registered(j) /\ job'[j].status # job[j].status)
         => AllowedTransition(job[j].status, job'[j].status)]_vars

\* C7: cancel_training returns false and changes nothing for an unknown id
\* and for a job already completed, failed or cancelled; it returns true
\* only for a job in a non-terminal status.
C7_CancelFalseWhenTerminalOrUnknown ==
  [][\A j \in JobIds :
       /\ ( /\ ccall[j].at = "idle"
            /\ (ccall'[j] # ccall[j] \/ cret'[j] # cret[j])
            /\ (j \notin registry \/ Terminal(job[j].status)) )
            => ( /\ ccall'[j].at = "idle"
                 /\ cret'[j] = "false"
                 /\ job'[j] = job[j]
                 /\ future'[j] = future[j] )
       /\ (ccall[j].at = "L229" /\ ccall'[j].at = "idle" /\ cret'[j] = "true")
            => ~Terminal(ccall[j].entry)]_vars

\* C8: a step of cancel_training changes no field of the record other than
\* its status.
C8_CancelOnlyFlipsStatus ==
  [][\A j \in JobIds :
       ccall'[j] # ccall[j] => job'[j] = [job[j] EXCEPT !.status = job'[j].status]]_vars

\* C9: a job whose status is failed has no model file, complete or partial,
\* under its id.
C9_FailedLeavesNoModel ==
  \A j \in registry : job[j].status = "failed" => store[j] = "none"

InExcept == {"L385", "L386", "L387"}

\* C10: an error raised at any stage of the worker is caught by the job:
\* control goes to the except clause with the future still running, the
\* status becomes failed, the message and failed_at are recorded before the
\* worker returns normally (the future never holds an exception), and
\* get_training_status on the registered job returns the record, not an error.
C10_ErrorsBecomeJobState ==
  [][\A j \in JobIds :
       /\ (loc[j].err = "none" /\ loc'[j].err # "none")
            => (pc'[j] = "L385" /\ future'[j] = "running")
       /\ (pc[j] = "L385" /\ pc'[j] # "L385") => job'[j].status = "failed"
       /\ (pc[j] \in InExcept /\ pc'[j] = "done")
            => ( /\ job'[j].error = loc[j].err
                 /\ job'[j].failed_at
                 /\ future'[j] = "finished" )
       /\ (loc[j].err # "none" /\ j \in registry /\ snap' # snap /\ snap'.id = j)
            => ( /\ ~snap'.raised
                 /\ snap'.value.status = job[j].status
                 /\ snap'.value.error = job[j].error
                 /\ snap'.value.failed_at = job[j].failed_at )]_vars

C10_Witness ==
  \E j \in registry :
    /\ pc[j] = "done"
    /\ loc[j].err = "OSError"
    /\ job[j].status = "failed"
    /\ job[j].error = "OSError"
    /\ job[j].failed_at
    /\ future[j] = "finished"
    /\ snap.id = j
    /\ ~snap.raised
    /\ snap.value.status = "failed"
    /\ snap.value.failed_at

\* no cancel_training call has been made on j and j was not deleted
Quiet(j) == j \in registry /\ ccall[j].at = "idle" /\ ccall[j].entry = "none"

Invalid(f) == ~f.exists \/ ~f.decodable \/ f.duration < MinDuration

HasMissingOrShort(files) ==
  \E i \in 1..Len(files) :
    ~files[i].exists \/ (files[i].decodable /\ files[i].duration < MinDuration)

FirstInvalid(files) ==
  CHOOSE i \in 1..Len(files) :
    Invalid(files[i]) /\ \A k \in 1..(i - 1) : ~Invalid(files[k])

\* the message for the first file of the list that does not pass validation
ValidationMessage(files) ==
  LET i == FirstInvalid(files)
      f == files[i]
  IN  IF ~f.exists THEN "Audio file not found: audio_files[" \o ToString(i) \o "]"
      ELSE IF ~f.decodable THEN "Invalid audio file"
      ELSE "Audio file too short: 1.9s (minimum 2s)"

ValidationStagePcs ==
  {"queued", "L253", "L271", "L272", "L273", "L275", "L385", "L386", "L387", "done"}

\* C11: with no cancel or delete call, a job with a missing path or a sample
\* shorter than 2 seconds never leaves the 'Analyzing audio quality' stage,
\* extracts no file, writes no model and ends failed with the message of its
\* first invalid file (naming the missing path); a sample of exactly 2
\* seconds is never rejected as too short.
C11_InvalidInputFailsEagerly ==
  \A j \in JobIds :
    /\ (Quiet(j) /\ HasMissingOrShort(job[j].audio_files)) =>
         /\ pc[j] \in ValidationStagePcs
         /\ job[j].current_stage \in {"Preparing for training...", Stages[1].label}
         /\ loc[j].nchars = 0
         /\ store[j] = "none"
         /\ pc[j] = "done" =>
              /\ job[j].status = "failed"
              /\ job[j].error = ValidationMessage(job[j].audio_files)
              /\ job[j].failed_at
    /\ loc[j].err # "Audio file too short: 2.0s (minimum 2s)"

C11_Witness ==
  \E j \in JobIds :
    /\ Quiet(j)
    /\ job[j].audio_files = << Exactly2, Missing >>
    /\ pc[j] = "done"
    /\ job[j].status = "failed"
    /\ job[j].error = "Audio file not found: audio_files[2]"

RECURSIVE TotalDuration(_)
TotalDuration(files) ==
  IF files = << >> THEN 0
  ELSE Head(files).duration + TotalDuration(Tail(files))

\* C12: with no cancel or delete call, a job whose samples all pass the
\* per-file checks but whose total duration is below the minimum writes no
\* model and ends in status failed.
C12_ShortTotalFails ==
  \A j \in JobIds :
    ( /\ Quiet(j)
      /\ job[j].audio_files # << >>
      /\ \A i \in 1..Len(job[j].audio_files) :
           ~Invalid(job[j].audio_files[i]) /\ job[j].audio_files[i].extractable
      /\ TotalDuration(job[j].audio_files) < MinTotalDuration )
    => ( /\ store[j] = "none"
         /\ pc[j] = "done" => job[j].status = "failed" )

\* every file passes validation and the extraction of some file fails
ExtractionFails(files) ==
  /\ \A i \in 1..Len(files) : ~Invalid(files[i])
  /\ \E i \in 1..Len(files) : ~files[i].extractable

FirstUnextractable(files) ==
  CHOOSE i \in 1..Len(files) :
    ~files[i].extractable /\ \A k \in 1..(i - 1) : files[k].extractable

CombineAndLater ==
  {"L306", "L307", "L310", "L315", "L316", "L327", "L333", "L334", "L339",
   "L340", "L344", "L345", "L353", "L354", "L364", "L369", "L370", "L373", "L374",
   "L375", "L376", "L377"}

C14_DeleteUnknownReturnsFalse ==
  [][\A j \in JobIds :
       (dret' # dret /\ dret'.id = j /\ store[j] = "none" /\ j \notin registry)
         => dret'.result = "false"]_vars

\* a step in which delete_voice_model(j) returns True
DeleteReturnsTrue(j) ==
  /\ dret'.id = j
  /\ dret'.result = "true"
  /\ \/ dret' # dret
     \/ j \in registry /\ j \notin registry'
     \/ store[j] # "none" /\ store'[j] = "none"

\* C15: right after delete_voice_model returns true for a finished job, the
\* id has no model file, is not in the registry (get_training_status fails
\* for it), is not listed, and the files and registry entries of all other
\* ids are as before.
C15_DeleteRemovesOnlyItsJob ==
  [][\A j \in JobIds :
       (DeleteReturnsTrue(j) /\ pc[j] = "done") =>
         /\ store'[j] = "none"
         /\ j \notin registry'
         /\ j \notin ListedIds'
         /\ \A k \in JobIds \ {j} :
              /\ store'[k] = store[k]
              /\ job'[k] = job[k]
              /\ (k \in registry') = (k \in registry)]_vars

C15_Witness ==
  /\ dret.id = 1 /\ dret.result = "true"
  /\ pc[1] = "done"
  /\ job[1].status = "completed"
  /\ store[1] = "none"
  /\ 1 \notin registry
  /\ 2 \in registry
  /\ store[2] = "complete"
  /\ ListedIds = {2}

\* C16: start_voice_cloning can be called in every state, whatever the pool
\* is doing (as long as this run has an id left to hand out); the call
\* moves no worker, hands out an id never used before and registers a
\* record with status initializing and progress 0 whose work item is queued.
C16_SubmitNeverWaits ==
  /\ []((\E j \in JobIds : future[j] = "none")
          => ENABLED (\E r \in PoolRequests : StartVoiceCloning(r[1], r[2])))
  /\ [][\A j \in JobIds :
          (j \notin registry /\ j \in registry') =>
            /\ future[j] = "none"
            /\ job[j] = NoJob
            /\ job'[j].status = "initializing"
            /\ job'[j].progress = 0
            /\ future'[j] = "pending"
            /\ pc' = [pc EXCEPT ![j] = "queued"]
            /\ \A k \in JobIds \ {j} : job'[k] = job[k] /\ future'[k] = future[k]]_vars

\* all pool threads busy, one job queued behind them, and one more accepted
C16_Witness ==
  /\ Cardinality(Running) = MaxWorkers
  /\ future[5] = "pending"
  /\ future[6] = "pending"
  /\ 6 \in registry
  /\ job[6].status = "initializing"
  /\ job[6].progress = 0

\* every job handed to the pool so far has been run to its end by a worker
\* and has status completed or failed
AllSubmittedFinished ==
  \A j \in PoolIds :
    future[j] # "none"
      => (future[j] = "finished" /\ job[j].status \in {"completed", "failed"})

\* C17: with the pool's threads running fairly (and no cancel or delete
\* call), no submitted job is dropped: again and again a state is reached in
\* which every job submitted so far, also one queued behind a saturated pool,
\* was picked up by a worker and has reached status completed or failed.
C17_NoJobDropped == []<>AllSubmittedFinished

\* the job queued behind a full pool has run to its end
C17_Witness ==
  /\ future[5] = "finished"
  /\ job[5].status = "failed"
  /\ pc[5] = "done"
  /\ future[6] \in {"running", "finished"}

\* C18: at most MaxWorkers jobs are executed at the same time, and a job
\* whose work item is still queued has not been touched: its status is
\* initializing; it starts only when fewer than MaxWorkers jobs are running.
C18_AtMostFourRunning ==
  /\ [](/\ Cardinality(Running) <= MaxWorkers
        /\ \A j \in JobIds :
             future[j] = "pending" =>
               (pc[j] = "queued" /\ job[j].status = "initializing" /\ job[j].progress = 0))
  /\ [][\A j \in JobIds :
          (future[j] = "pending" /\ future'[j] = "running")
            => Cardinality(Running) < MaxWorkers]_vars

\* a freed thread has taken the fifth job and the sixth still waits
C18_Witness ==
  /\ Running = {2, 3, 4, 5}
  /\ future[1] = "finished"
  /\ future[6] = "pending"
  /\ job[6].status = "initializing"

\* C19: the stage sequence of a job is started at most once (its work item
\* is submitted once and its worker never restarts), every write to a
\* registered record is a step of that job's own worker, and no step moves
\* two workers or writes two records.
C19_SingleWriter ==
  [][\A j \in JobIds :
       /\ pc[j] \notin {"none", "queued"}
            => (pc'[j] \notin {"none", "queued"} /\ (pc'[j] = "L253" => pc[j] = "L253"))
       /\ future[j] # "none"
            => (future'[j] # "none" /\ (future'[j] = "pending" => future[j] = "pending"))
       /\ (job[j] # NoJob /\ job'[j] # job[j]) => pc'[j] # pc[j]
       /\ pc'[j] # pc[j]
            => \A k \in JobIds \ {j} : pc'[k] = pc[k] /\ job'[k] = job[k]]_vars

\* three workers at different statements, each having written its own record
C19_Witness ==
  /\ pc[1] = "done" /\ job[1].status = "failed"
  /\ pc[2] = "L386" /\ job[2].status = "failed" /\ job[2].error = "unset"
  /\ pc[3] = "L272" /\ job[3].status = "analyzing"
  /\ pc[4] = "queued" /\ job[4].status = "initializing"

\* the fields of a record other than the future handle and the creation time
PublicFields(rec) == DOMAIN rec \ {"future", "created_at"}

\* C20: get_training_status raises for an id that is not in the registry and
\* changes nothing; for a registered id it returns, whatever the status, the
\* current value of every field of the record, the creation time as text,
\* and no future handle; the registry and the records are left as they were.
C20_StatusSnapshot ==
  [][\A j \in JobIds :
       (snap' # snap /\ snap'.id = j) =>
         /\ registry' = registry /\ job' = job /\ future' = future /\ store' = store
         /\ IF j \notin registry
              THEN snap'.raised
              ELSE /\ ~snap'.raised
                   /\ snap'.value.future = FALSE
                   /\ snap'.value.created_at = "isoformat"
                   /\ \A f \in PublicFields(job[j]) : snap'.value[f] = job[j][f]]_vars

\* a completed job queried: the record holds the handle, the answer does not
C20_Witness ==
  /\ 1 \in registry
  /\ job[1].status = "completed" /\ job[1].future = TRUE
  /\ snap.id = 1 /\ ~snap.raised
  /\ snap.value.status = "completed" /\ snap.value.progress = job[1].progress
  /\ snap.value.future = FALSE

\* C21: get_training_status works on a copy: the registered record keeps
\* its future handle, the call is possible in every state (it never waits
\* for the worker), a step that produces a snapshot changes nothing else,
\* and a step of the worker, of cancel_training or of any other operation
\* leaves the snapshot already returned as it was.
C21_SnapshotIsACopy ==
  /\ [](\A j \in JobIds :
          /\ ENABLED GetTrainingStatus(j)
          /\ j \in registry => job[j].future = TRUE)
  /\ [][/\ snap' # snap
             => UNCHANGED << registry, job, future, pc, loc, store, ccall, cret, dret >>
        /\ (job' # job \/ pc' # pc \/ ccall' # ccall \/ registry' # registry)
             => snap' = snap]_vars

\* a snapshot taken during training, still unchanged after the job was
\* cancelled and then completed by the worker
C21_Witness ==
  /\ snap.id = 1 /\ ~snap.raised
  /\ snap.value.status = "training" /\ snap.value.progress = IterationProgress(1, 5)
  /\ cret[1] = "true"
  /\ job[1].status = "completed" /\ job[1].progress = 0
  /\ job[1].future = TRUE

\* the clock value whose isoformat() text is s
ClockOf(s) == CHOOSE t \in 0..(MaxClock + 1) : IsoFormat(t) = s

\* r holds exactly one summary for each fully written model file of store
\* st and nothing else, each with the creation time recorded in its file,
\* and no summary stands before one of a later creation time
ListsStoredModels(r, st, mt) ==
  /\ {r[i].id : i \in DOMAIN r} = {j \in DOMAIN st : st[j] = "complete"}
  /\ \A i, k \in DOMAIN r : r[i].id = r[k].id => i = k
  /\ \A i \in DOMAIN r : r[i].created_at = mt[r[i].id]
  /\ \A i, k \in DOMAIN r :
       i < k => ClockOf(r[i].created_at) >= ClockOf(r[k].created_at)

\* C22: whatever the registry holds, every value list_voice_models can
\* return, and every value it did return, has exactly one summary per model
\* file stored (fully written) in the model store, the most recently
\* created first.
C22_ListMatchesStore ==
  /\ [](\A r \in ListResults(store, meta) : ListsStoredModels(r, store, meta))
  /\ [][lret' # lret => ListsStoredModels(lret', store, meta)]_vars

\* both models listed, the later one first, while the registry has lost the
\* entry of one of them
C22_Witness ==
  /\ store[1] = "complete" /\ store[2] = "complete"
  /\ registry = {1}
  /\ Len(lret) = 2
  /\ lret[1].id = 2 /\ lret[2].id = 1
  /\ ClockOf(lret[1].created_at) > ClockOf(lret[2].created_at)

\* C23: a job submitted with valid input and never cancelled or deleted
\* ends in status completed, and at the moment its status becomes completed
\* every value list_voice_models can return has that job's model as its
\* first entry.
C23_CompletedModelListedFirst ==
  /\ [](\A j \in JobIds :
          (dret.result = "none" /\ pc[j] = "done" /\ loc[j].err = "none")
            => job[j].status = "completed")
  /\ [][\A j \in JobIds :
          (/\ dret.result = "none" /\ dret'.result = "none"
           /\ job[j].status # "completed" /\ job'[j].status = "completed")
            => \A r \in ListResults(store', meta') : r # << >> /\ r[1].id = j]_vars

\* C24: in every state, a registered record whose status is completed has
\* its model file fully written in the store and carries the model
\* reference, the quality score, the total input duration and the
\* completion time.
C24_CompletedIsWhole ==
  \A j \in registry :
    job[j].status = "completed" =>
      /\ store[j] = "complete"
      /\ job[j].model_path = TRUE
      /\ job[j].quality_score = TRUE
      /\ job[j].total_duration >= 0
      /\ job[j].completed_at = TRUE

\* the step is a call delete_voice_model(j) that returns True
DeletesOwn(j) ==
  /\ dret'.id = j /\ dret'.result = "true"
  /\ registry' = registry \ {j}
  /\ UNCHANGED << job, future, pc, loc, ccall, cret, snap, lret >>

\* C25: a model file fully written in the store stays there, with its
\* content, through every step that is not delete_voice_model called with
\* its own id (submit, status, cancel, list, delete of another id, worker
\* steps of either job); and every delete_voice_model(j) that returns True
\* leaves no file under j, also when the registry had no entry for j.
C25_OnlyDeleteRemovesModel ==
  [][\A j \in JobIds :
       /\ (store[j] = "complete" /\ (store'[j] # "complete" \/ meta'[j] # meta[j]))
            => (DeletesOwn(j) /\ store'[j] = "none")
       /\ (dret' # dret /\ dret'.id = j /\ dret'.result = "true")
            => store'[j] = "none"]_vars

\* job 1 was deleted while running, wrote its model afterwards, and a later
\* delete_voice_model(1) found the file without a registry entry and
\* removed it; the model of job 2 is still stored
C25_Witness ==
  /\ dret.id = 1 /\ dret.result = "true" /\ dret.orphan
  /\ store[1] = "none" /\ 1 \notin registry
  /\ pc[1] = "done" /\ job[1].status = "completed"
  /\ store[2] = "complete" /\ cret[2] = "true"

\* C26: whatever the profile (also without a quality, or with one that is
\* out of range or not a number), the noise drawn and the tier, the score
\* returned is a number between 0 and 1; for a tier that is none of draft,
\* standard, high, premium the multiplier is 0.8.
C26_ScoreInUnitInterval ==
  call.op = "score" =>
    /\ ~call.result.nan
    /\ 0 <= call.result.v /\ call.result.v <= ScoreOne
    /\ LET base == BaseQuality(call.characteristics) IN
         (/\ call.quality \notin Tiers
          /\ ~base.nan /\ 0 <= base.v /\ base.v <= 100
          /\ call.noise = F(0))
           => call.result.v = base.v * 80

\* an unknown tier, and noise that pushes the raw score below zero
C26_Witness ==
  /\ call.op = "score"
  /\ call.quality = "turbo"
  /\ call.characteristics = [k \in {"voice_quality_score"} |-> F(37)]
  /\ call.noise = F(-2000000)
  /\ call.result = F(0)

\* C27: the scorer evaluated twice on the same profile and the same tier
\* returns the same score both times.
C27_ScoreDeterministic ==
  [][(/\ call.op = "score" /\ call'.op = "score"
      /\ call'.characteristics = call.characteristics
      /\ call'.quality = call.quality)
       => call'.result = call.result]_vars

\* the rearrangements of a list
Rearrangements(list) ==
  LET n == Len(list)
      bijections == {p \in [1..n -> 1..n] : \A a, b \in 1..n : p[a] = p[b] => a = b}
  IN  {[i \in 1..n |-> list[p[i]]] : p \in bijections}

\* C28: the combiner returns the same profile (scalar means, MFCC and
\* chroma means, formants) for a non-empty list of characteristics and for
\* every rearrangement of that list.
C28_CombineOrderIndependent ==
  (call.op = "combined" /\ call.list # << >>) =>
    \A other \in Rearrangements(call.list) :
      CombineVoiceCharacteristics(other) = call.result

\* the numbers that occur in the formant lists of the samples
FormantUnion(list) ==
  UNION {{list[i].formants[k] : k \in DOMAIN list[i].formants} : i \in DOMAIN list}

C30_CombinerNeverGetsEmptyList ==
  \A j \in JobIds : pc[j] = "L310" => loc[j].nchars >= 1

\* the worker has left the training loop by its normal exit
PastTrainingLoop ==
  {"L339", "L340", "L344", "L345", "L353", "L354", "L364", "L369", "L370",
   "L373", "L374", "L375", "L376", "L377"}

\* C31: a job on which cancel_training was never called has run, when its
\* worker leaves the training loop, exactly 5 (draft), 15 (standard), 30
\* (high) or 50 (premium) iterations; an iteration starts only after the
\* check of line 328 found the job not cancelled, and the worker stops for
\* a cancellation at that check and at no other statement.
C31_IterationsAndCheckpoints ==
  /\ [](\A j \in JobIds :
          (Quiet(j) /\ pc[j] \in PastTrainingLoop) =>
            /\ job[j].quality = "draft"    => job[j].stage_details = 5
            /\ job[j].quality = "standard" => job[j].stage_details = 15
            /\ job[j].quality = "high"     => job[j].stage_details = 30
            /\ job[j].quality = "premium"  => job[j].stage_details = 50)
  /\ [][\A j \in JobIds :
          /\ (pc[j] # "L333" /\ pc'[j] = "L333")
               => (pc[j] = "L327" /\ job[j].status # "cancelled")
          /\ (pc[j] \notin {"done", "L253", "L377", "L387"} /\ pc'[j] = "done")
               => (pc[j] = "L327" /\ job[j].status = "cancelled")
          /\ (pc[j] = "L327" /\ job[j].status = "cancelled" /\ pc'[j] # pc[j])
               => pc'[j] \in {"done", "L339"}]_vars

\* a premium job, never cancelled, past its fiftieth iteration
C31_Witness ==
  /\ Quiet(1)
  /\ job[1].quality = "premium"
  /\ pc[1] = "L340"
  /\ job[1].stage_details = 50
  /\ loc[1].idx = 50

\* the cumulative progress ceiling of each stage label, in percent
StageCeiling ==
  << 10, 35, 35, 70, 85, 95, 100 >>

\* the position of a label in the stage table (0: not a stage label)
StageIndex(label) ==
  IF \E k \in DOMAIN Stages : Stages[k].label = label
    THEN CHOOSE k \in DOMAIN Stages : Stages[k].label = label
    ELSE 0

\* C32: while a job runs (no cancel_training call made on it), its progress
\* never exceeds the ceiling of the stage its current_stage names, and when
\* current_stage moves to a stage the progress is at least the ceiling of
\* the stage before it.
C32_ProgressWithinStageCeiling ==
  /\ [](\A j \in JobIds :
          (Quiet(j) /\ future[j] = "running" /\ StageIndex(job[j].current_stage) > 0)
            => job[j].progress <= StageCeiling[StageIndex(job[j].current_stage)] * PScale)
  /\ [][\A j \in JobIds :
          (/\ Quiet(j) /\ future[j] = "running"
           /\ job'[j].current_stage # job[j].current_stage
           /\ StageIndex(job'[j].current_stage) > 1)
            => job'[j].progress >=
                 StageCeiling[StageIndex(job'[j].current_stage) - 1] * PScale]_vars

\* base seconds of the four tiers
TierBase(q) ==
  CASE q = "draft" -> 30 [] q = "standard" -> 120 [] q = "high" -> 300 [] q = "premium" -> 600

\* e is base(q) * min(n * 0.5, 3.0)
IsEstimate(e, n, q) ==
  /\ n <= 6 => 2 * e = TierBase(q) * n
  /\ n >= 6 => e = TierBase(q) * 3

\* C33: for every number of files and each of the four tiers, the value
\* computed by _estimate_training_time and the estimated_duration recorded
\* in the job at submission are base * min(n * 0.5, 3.0) (the same from 6
\* files on), and computing the estimate changes no job state.
C33_EstimateFormula ==
  /\ []((call.op = "estimate" /\ call.quality \in Tiers)
          => IsEstimate(call.result, call.num_files, call.quality))
  /\ [](\A j \in registry :
          job[j].quality \in Tiers
            => IsEstimate(job[j].estimated_duration, Len(job[j].audio_files), job[j].quality))
  /\ [][call' # call
          => UNCHANGED << registry, job, future, pc, loc, store, meta >>]_vars

\* eight premium files: the estimate is capped at 3 * 600, in the call and
\* in the record
C33_Witness ==
  /\ call.op = "estimate" /\ call.num_files = 8 /\ call.quality = "premium"
  /\ call.result = 1800
  /\ 1 \in registry /\ Len(job[1].audio_files) = 8
  /\ job[1].estimated_duration = 1800

\* C34: every value returned by extract_voice_characteristics has 13 MFCC
\* coefficients, 12 chroma bins and a voice_quality_score within [0,1],
\* silent and constant audio included.
C34_CharacteristicsShape ==
  call.op = "extract" =>
    /\ Len(call.result.mfcc_features) = 13
    /\ Len(call.result.chroma_features) = 12
    /\ ~call.result.voice_quality_score.nan
    /\ call.result.voice_quality_score.v >= 0
    /\ call.result.voice_quality_score.v <= ScoreOne

\* silent audio: the jitter is not a number and the score is 1.0; and audio
\* whose jitter drives the sum below zero
C34_Witness ==
  /\ call.op = "extract"
  /\ call.audio.jitter.nan
  /\ call.result.voice_quality_score = F(ScoreOne)
  /\ Len(call.result.mfcc_features) = 13

C34_WitnessFloor ==
  /\ call.op = "extract"
  /\ ~call.audio.jitter.nan
  /\ QualitySum(call.audio.hnr, call.audio.jitter).v < 0
  /\ call.result.voice_quality_score = F(0)

\* a clone form with a name, a valid tier and only decodable files of an
\* allowed type
ValidCloneRequest(r) ==
  /\ r.has_part
  /\ Strip(r.voice_name) # << >>
  /\ r.quality \in Tiers
  /\ r.files # << >>
  /\ \A i \in 1..Len(r.files) :
       /\ r.files[i].filename # << >>
       /\ AllowedFile(r.files[i].filename)
       /\ r.files[i].decodable

\* C35: a clone request with a non-empty voice name, a valid tier and at
\* least one decodable audio file of an allowed type (a single 2-second WAV,
\* say) is answered with 200, status completed and the given name, registers
\* exactly one new voice model, and that model is then reported by the
\* clone-status and voice-listing operations.
C35_ValidCloneSucceeds ==
  /\ [][\A r \in CloneRequests :
          (ValidCloneRequest(r) /\ CloneVoice(r)) =>
            /\ web'.response.code = 200
            /\ web'.response.status = "completed"
            /\ web'.response.name = Strip(r.voice_name)
            /\ web'.response.voice_id \notin DOMAIN web.voice_models
            /\ DOMAIN web'.voice_models =
                 DOMAIN web.voice_models \cup {web'.response.voice_id}]_vars
  /\ [][\A v \in DOMAIN web.voice_models :
          /\ GetCloningStatus(v) => web'.response.code = 200
          /\ GetVoices => \E c \in web'.response.custom_voices : c.id = v]_vars

\* C36: a synthesize request rejected with 400 (no text, empty text, speed,
\* pitch or volume out of range) and a clone request rejected with 400 leave
\* synthesis_jobs and voice_models exactly as they were: no step that changes
\* one of the two is the handling of a rejected request.
C36_RejectionLeavesRegistries ==
  [][(web'.synthesis_jobs # web.synthesis_jobs \/ web'.voice_models # web.voice_models)
       => /\ \A d \in SynthRequests : SynthVerdict(d) = 400 => ~SynthesizeSpeech(d)
          /\ \A r \in CloneRequests : CloneVerdict(r) = 400 => ~CloneVoice(r)]_vars

\* a request has just been rejected while both registries hold entries
C36_Witness ==
  /\ web.response.op = "synthesize"
  /\ web.response.code = 400
  /\ DOMAIN web.synthesis_jobs # {}
  /\ DOMAIN web.voice_models # {}

\* C37: once synthesize has answered 200 with a job id, the record of that
\* id has status completed, progress 100 and an output file, and stays so; a
\* status request for a known id answers 200; download answers 404 for an
\* unknown id, 400 for a job that is not completed, and serves the file of a
\* completed one.
C37_SynthesisWorkflow ==
  /\ []((web.response.op = "synthesize" /\ web.response.code = 200) =>
          /\ web.response.job_id \in DOMAIN web.synthesis_jobs
          /\ web.synthesis_jobs[web.response.job_id].status = "completed"
          /\ web.synthesis_jobs[web.response.job_id].progress = 100
          /\ "output_file" \in DOMAIN web.synthesis_jobs[web.response.job_id])
  /\ [][\A i \in DOMAIN web.synthesis_jobs :
          web.synthesis_jobs[i].status = "completed" =>
            web'.synthesis_jobs[i] = web.synthesis_jobs[i]]_vars
  /\ [][\A i \in SynthIds \cup {0} :
          /\ (GetSynthesisStatus(i) /\ i \in DOMAIN web.synthesis_jobs)
               => web'.response.code = 200
          /\ DownloadSynthesizedAudio(i) =>
               web'.response.code =
                 IF i \notin DOMAIN web.synthesis_jobs THEN 404
                 ELSE IF web.synthesis_jobs[i].status # "completed" THEN 400
                 ELSE 200]_vars

\* the file of a completed job has been served while another job, failed,
\* has left a file behind
C37_Witness ==
  /\ web.response.op = "download"
  /\ web.response.code = 200
  /\ web.synthesis_jobs[web.response.job_id].status = "completed"
  /\ \E i \in DOMAIN web.synthesis_jobs :
       web.synthesis_jobs[i].status = "failed" /\ i \in web.outputs

\* C38: once delete_voice_model(job_id) has returned True, no model file of
\* job_id exists in any later state, even if the worker of the job was still
\* running at the time of the call, and no later list_voice_models result
\* contains job_id.
C38_DeletedModelStaysDeleted ==
  /\ [](\A j \in JobIds :
          (dret.id = j /\ dret.result = "true") => store[j] = "none")
  /\ [][\A j \in JobIds :
          (dret.id = j /\ dret.result = "true" /\ lret' # lret)
            => \A k \in 1..Len(lret') : lret'[k].id # j]_vars

\* C39: when cancel_training is called on a job no worker has started, the
\* job is never executed: its future is cancelled and stays so, the worker
\* never leaves the queue position, the status is cancelled and is changed
\* by nothing afterwards, and no model file of the job is written.
C39_QueuedCancelNeverRuns ==
  /\ [](\A j \in JobIds :
          (ccall[j].entry # "none" /\ ccall[j].wpc = "queued")
            => future[j] = "cancelled")
  /\ [](\A j \in JobIds :
          future[j] = "cancelled"
            => /\ pc[j] = "queued"
               /\ job[j].status = "cancelled"
               /\ store[j] = "none")
  /\ [][\A j \in JobIds :
          future[j] = "cancelled"
            => /\ future'[j] = "cancelled"
               /\ pc'[j] = "queued"
               /\ job'[j].status = "cancelled"
               /\ job'[j].current_stage = job[j].current_stage]_vars

\* cancel_training has returned True on a job that was still queued
C39_Witness ==
  \E j \in registry :
    /\ ccall[j].wpc = "queued"
    /\ ccall[j].at = "idle"
    /\ cret[j] = "true"
    /\ future[j] = "cancelled"
    /\ pc[j] = "queued"
    /\ job[j].status = "cancelled"
    /\ job[j].progress = 0

\* the bins of positive frequency at which the spectrum has a peak (the
\* middle of a flat stretch with a lower bin on either side) whose
\* magnitude exceeds a tenth of the maximum; bin k is magnitude[k + 1]
SpectralPeaksAbove(magnitude) ==
  LET n == Len(magnitude)
      top == NpMax(magnitude)
  IN  { k \in 1..((n - 1) \div 2) :
          /\ 10 * magnitude[k + 1] > top
          /\ \E l \in 1..k, r \in k..(n - 2) :
               /\ k = (l + r) \div 2
               /\ \A b \in l..r : magnitude[b + 1] = magnitude[k + 1]
               /\ magnitude[l] < magnitude[l + 1]
               /\ magnitude[r + 2] < magnitude[r + 1] }

\* C40 as stated: _estimate_formants returns at most 4 frequencies, all
\* positive, in ascending order: the lowest 4 (or all, if fewer) of the
\* positive-frequency peaks of the spectrum whose magnitude exceeds 10% of
\* the maximum.
C40_LowestFourPeaks ==
  call.op = "formants" =>
    /\ Len(call.result) <= 4
    /\ \A i \in DOMAIN call.result : call.result[i] > 0
    /\ \A i \in DOMAIN call.result : i > 1 => call.result[i - 1] < call.result[i]
    /\ call.result = FirstFour(Sorted(SpectralPeaksAbove(call.magnitude)))

\* the peaks that lie inside magnitude[:n // 2], below its last bin, and
\* whose magnitude is at least a tenth of the maximum
InnerPeaksFromTenth(magnitude) ==
  LET n == Len(magnitude)
      top == NpMax(magnitude)
      last == (n \div 2) - 1
  IN  { k \in 1..(last - 1) :
          /\ 10 * magnitude[k + 1] >= top
          /\ \E l \in 1..k, r \in k..(last - 1) :
               /\ k = (l + r) \div 2
               /\ \A b \in l..r : magnitude[b + 1] = magnitude[k + 1]
               /\ magnitude[l] < magnitude[l + 1]
               /\ magnitude[r + 2] < magnitude[r + 1] }

\* C40, amended: _estimate_formants returns at most 4 frequencies, all
\* positive, in ascending order: the lowest 4 (or all, if fewer) of the peaks
\* found inside the lower half of the spectrum, below its last bin, whose
\* magnitude is at least 10% of the maximum.
C40_LowestFourInnerPeaks ==
  call.op = "formants" =>
    /\ Len(call.result) <= 4
    /\ \A i \in DOMAIN call.result : call.result[i] > 0
    /\ \A i \in DOMAIN call.result : i > 1 => call.result[i - 1] < call.result[i]
    /\ call.result = FirstFour(Sorted(InnerPeaksFromTenth(call.magnitude)))

\* five peaks, of which the lowest four are returned
C40_Witness ==
  /\ call.op = "formants"
  /\ Cardinality(InnerPeaksFromTenth(call.magnitude)) = 5
  /\ Len(call.result) = 4

\* a peak of exactly a tenth of the maximum is returned
C40_WitnessTenth ==
  /\ call.op = "formants"
  /\ \E i \in DOMAIN call.result :
       10 * call.magnitude[call.result[i] + 1] = NpMax(call.magnitude)

====
